---- MODULE Spec2Model ----
(***************************************************************************)
(* Coffee machine simulator: the per-group brewing workers                 *)
(* (coffee_machine_simulator.py), the manual brew request of the control   *)
(* surface (web_server.py) and the shared status document they update.     *)
(*                                                                         *)
(* Threads are interleaved at the points where the interpreter can switch  *)
(* between them: every access to the shared document, every call of the    *)
(* sink (is_connected, send) and every sleep is a step of its own, so the  *)
(* read and the write of one `value += increment` are two steps.           *)
(***************************************************************************)
EXTENDS Integers, Sequences, FiniteSets, TLC

(***************************************************************************)
(* Bounds of the model.                                                    *)
(***************************************************************************)
\* Loop iterations of the group workers plus manual brew requests run in total.
MaxOps == 2
\* Calls of start_simulation() that find the simulation stopped.
MaxStarts == 1
\* Starts whose group workers the model holds threads for.
MaxEpochs == 2
\* The largest target time of a recipe the resolver is called with.
MaxTarget == 240
\* Advances of the wall clock, in units of TickSeconds.
MaxTicks == 1
\* Calls of device.send that raise.
MaxFaults == 1
\* Iterations of the countdown loop `for _ in range(wait_time)` that are run.
MaxSlices == 2

(***************************************************************************)
(* Program constants.                                                      *)
(***************************************************************************)
Groups == {"group1", "group2", "group3"}
CoffeeTypes == 1..7
DefaultResidualCoffee == 10000
DefaultFilterDuration == 5000
DefaultErogMin == 150
DefaultErogMax == 350
ErogFloor == 50
FlowMin == 300
FlowMax == 600
OpenHour == 7
CloseHour == 23

\* One unit of the model's clock: five minutes, in seconds.
TickSeconds == 5 * 60

NoValue == -1

VARIABLES
    running,               \* CoffeeMachineSimulator.running
    connected,             \* what device.is_connected() returns
    now,                   \* the wall clock, in units of TickSeconds since midnight
    ticks,                 \* advances of the clock so far
    has_counters,          \* 'counters' in simulator_status
    buckets,               \* the keys of counters_data: groups and 'total'
    cnt,                   \* counters_data: <<bucket, key>> -> the entry's value
    settings,              \* settings.data: manteinance, and temperature.tempSetpointGr1
    total_litres_tens_ml,  \* CoffeeMachineSimulator.total_litres_tens_ml
    initial_filter_duration,
    last_temp_update,      \* group -> time of its last temperature update
    thr,                   \* the group workers and the request threads
    main,                  \* the thread that calls start_simulation / stop_simulation
    ops,                   \* loop iterations and requests started so far
    faults,                \* sends that raised so far
    hydrated,              \* counters_data as hydrated, never changed
    acct,                  \* the brews whose counter update has returned
    view,                  \* what get_local_counters() returned to the status page
    calc                   \* a call of one of the pure functions and its result

vars == <<running, connected, now, ticks, has_counters, buckets, cnt, settings,
          total_litres_tens_ml, initial_filter_duration, last_temp_update,
          thr, main, ops, faults, hydrated, acct, view, calc>>

(***************************************************************************)
(* Threads.                                                                *)
(***************************************************************************)
Workers == {<<"w", e, g>> : e \in 1..MaxEpochs, g \in Groups}
\* The thread of the web server that serves a brew request.
Manuals == {<<"m", 1>>}
Threads == Workers \cup Manuals

IsWorker(p) == p[1] = "w"

\* The counters a brew is about to change, as they are when its update begins.
NoSnap == [k |-> NoValue, tc |-> NoValue, T |-> NoValue, V |-> NoValue,
           R |-> NoValue, L |-> NoValue]

\* An event as the sink receives it: send(interface, path, value, timestamp).
Event(interface, path, value, timestamp) ==
    [interface |-> interface, path |-> path, value |-> value, timestamp |-> timestamp]

NoEvent == Event("none", <<>>, NoValue, NoValue)

\* Nothing returned to the status page yet; no pure function called.
NoView == [ref |-> "none", seen |-> <<>>]
NoCalc == [fn |-> "none"]

\* What the log of a thread keeps of an event it has sent.
Logged(ev) == [interface |-> ev.interface, path |-> ev.path, timestamp |-> ev.timestamp]

\* The locals of a thread outside any brew: `out` logs the events the thread has
\* sent since its iteration or request began, `sent` is the last of them.
Blank(pc0, g) ==
    [pc |-> pc0, group |-> g, coffee_type |-> 0, erog_time |-> 0,
     flow_total |-> 0, current_time |-> NoValue, coffee_increment |-> 0,
     val |-> 0, stale |-> FALSE, slices |-> 0, out |-> <<>>, sent |-> NoEvent,
     touched |-> FALSE, clean |-> TRUE, alone |-> FALSE, snap |-> NoSnap,
     result |-> "none"]

(***************************************************************************)
(* The clock: datetime.now(ZoneInfo("Europe/Rome")).                       *)
(***************************************************************************)
Hour(t) == ((t * TickSeconds) \div 3600) % 24

\* coffee_machine_simulator.py:74 and :94
ShopClosed(current_hour) == current_hour >= CloseHour \/ current_hour < OpenHour

\* The instants at which a run may begin: 06:55 and 22:55, five minutes before
\* the shop opens and before it closes.
StartTimes == {83, 275}

\* 07:00, the shop open.
OpenTime == (OpenHour * 3600) \div TickSeconds

(***************************************************************************)
(* The status document.                                                    *)
(***************************************************************************)
\* coffee_key = f"k{coffee_type}"
KeyNames == <<"k1", "k2", "k3", "k4", "k5", "k6", "k7">>
CoffeeKey(coffee_type) == KeyNames[coffee_type]
GroupKeys == {CoffeeKey(t) : t \in CoffeeTypes} \cup {"totalCoffee"}

\* main_new.py:62-99: every group counter and the two totals at 0.
DefaultCounters ==
    [path \in (Groups \X GroupKeys) \cup {<<"total", "totalCoffee">>, <<"total", "totalVolume">>}
        |-> 0]

\* A document as the remote source returns it for a device that has published
\* only part of its counters: group3 is missing, group2 has no totalCoffee.
\* totalVolume is held in tenths of its unit.
PartialCounters ==
    (<<"group1", CoffeeKey(1)>> :> 3) @@ (<<"group1", CoffeeKey(3)>> :> 4) @@
    (<<"group1", "totalCoffee">> :> 7) @@ (<<"group2", CoffeeKey(1)>> :> 1) @@
    (<<"total", "totalCoffee">> :> 8) @@ (<<"total", "totalVolume">> :> 3205) @@
    (<<"total", "residualCoffeeActivation">> :> 2)

BucketsOf(c) == {path[1] : path \in DOMAIN c}

NoSettings ==
    [residualCoffeeForManteinance |-> NoValue, waterFilterDuration |-> NoValue,
     tempSetpointGr1 |-> NoValue]

\* The status documents a run may be constructed with.
DefaultStatus == [has |-> TRUE, counters |-> DefaultCounters, settings |-> NoSettings]
PartialStatus ==
    [has |-> TRUE, counters |-> PartialCounters,
     settings |-> [residualCoffeeForManteinance |-> 3, waterFilterDuration |-> 7,
                   tempSetpointGr1 |-> NoValue]]

\* Documents as the remote source may return them, the default one short of
\* total/totalCoffee, of total/totalVolume, or of the whole totals bucket.
Without(c, paths) == [path \in DOMAIN c \ paths |-> c[path]]

NoTotalCoffeeStatus ==
    [has |-> TRUE, counters |-> Without(DefaultCounters, {<<"total", "totalCoffee">>}),
     settings |-> NoSettings]
NoTotalVolumeStatus ==
    [has |-> TRUE, counters |-> Without(DefaultCounters, {<<"total", "totalVolume">>}),
     settings |-> NoSettings]
NoTotalsStatus ==
    [has |-> TRUE,
     counters |-> Without(DefaultCounters, {<<"total", "totalCoffee">>, <<"total", "totalVolume">>}),
     settings |-> [residualCoffeeForManteinance |-> 3, waterFilterDuration |-> NoValue,
                   tempSetpointGr1 |-> NoValue]]

\* coffee_machine_simulator.py:22-25: no status document is handed to
\* __init__, and self.simulator_status is the empty dictionary.
NoStatus == [has |-> FALSE, counters |-> <<>>, settings |-> NoSettings]

Has(path) == path \in DOMAIN cnt

\* self.groups, in the order start_simulation walks it.
GroupList == <<"group1", "group2", "group3">>

(***************************************************************************)
(* Construction: CoffeeMachineSimulator.__init__ and the module globals of *)
(* web_server.py after set_coffee_references.                              *)
(***************************************************************************)
\* coffee_machine_simulator.py:346-364
WaterFilterDurationSetting(s) ==
    IF s.waterFilterDuration # NoValue THEN s.waterFilterDuration
    ELSE DefaultFilterDuration

\* coffee_machine_simulator.py:326-344
ResidualCoffeeSetting(s) ==
    IF s.residualCoffeeForManteinance # NoValue THEN s.residualCoffeeForManteinance
    ELSE DefaultResidualCoffee

\* simulator_status as __init__ receives it, and what __init__ derives from it.
Hydrated(st) ==
    /\ has_counters = st.has
    /\ cnt = st.counters
    /\ hydrated = st.counters
    /\ buckets = BucketsOf(st.counters)
    /\ settings = st.settings
    /\ initial_filter_duration = WaterFilterDurationSetting(st.settings)

\* coffee_machine_simulator.py:22-37: nothing brewed, nothing sent.
Fresh ==
    /\ ticks = 0
    /\ total_litres_tens_ml = 0
    /\ last_temp_update = [g \in Groups |-> NoValue]
    /\ ops = 0
    /\ faults = 0
    /\ acct = [coffee |-> [g \in Groups |-> 0], flow |-> 0, n |-> 0]
    /\ view = NoView
    /\ calc = NoCalc

\* The simulator constructed on the default document, not yet started.
Init ==
    /\ running = FALSE
    /\ connected \in BOOLEAN
    /\ now \in StartTimes
    /\ Hydrated(DefaultStatus)
    /\ Fresh
    /\ thr = [p \in Threads |-> IF IsWorker(p) THEN Blank("none", p[3])
                                ELSE Blank("idle", "none")]
    /\ main = [pc |-> "idle", epoch |-> 0, i |-> 0, current_time |-> NoValue,
               out |-> <<>>, dropped |-> 0]

\* What main() leaves behind (main_new.py:504-510): the simulator constructed
\* on one of the documents and started at 07:00 with the sink connected, one
\* flowError sent for each group, the workers at the top of their loops, the
\* web server up.
Started(documents) ==
    /\ running = TRUE
    /\ connected = TRUE
    /\ now = OpenTime
    /\ \E st \in documents : Hydrated(st)
    /\ Fresh
    /\ thr = [p \in Threads |-> IF IsWorker(p)
                                  THEN Blank(IF p[2] = 1 THEN "top" ELSE "none", p[3])
                                ELSE Blank("idle", "none")]
    /\ main = [pc |-> "idle", epoch |-> 1, i |-> 0, current_time |-> OpenTime,
               out |-> [i \in 1..Len(GroupList) |->
                          Event("TelemetryFast01", <<GroupList[i], "flowError">>,
                                FALSE, OpenTime)],
               dropped |-> 0]

\* The simulator started, stopped and started again within one slice of the
\* countdown of group1's first worker: start_simulation (line 45) sets the
\* flag again before that worker has looked at it (line 84), so the worker
\* stays in its loop beside the worker the second start creates for group1.
\* The first workers of group2 and group3 have seen the stop and returned.
Restarted(documents) ==
    /\ running = TRUE
    /\ connected = TRUE
    /\ now = OpenTime
    /\ \E st \in documents : Hydrated(st)
    /\ ticks = 0
    /\ total_litres_tens_ml = 0
    /\ last_temp_update = [g \in Groups |-> NoValue]
    /\ ops = 1
    /\ faults = 0
    /\ acct = [coffee |-> [g \in Groups |-> 0], flow |-> 0, n |-> 0]
    /\ view = NoView
    /\ calc = NoCalc
    /\ thr = [p \in Threads |->
                IF ~IsWorker(p) THEN Blank("idle", "none")
                ELSE IF p[2] = 2 THEN Blank("top", p[3])
                ELSE IF p[2] = 1 /\ p[3] = "group1"
                  THEN [Blank("count", p[3]) EXCEPT !.slices = 1]
                ELSE IF p[2] = 1 THEN Blank("done", p[3])
                ELSE Blank("none", p[3])]
    /\ main = [pc |-> "idle", epoch |-> 2, i |-> 0, current_time |-> OpenTime,
               out |-> [i \in 1..Len(GroupList) |->
                          Event("TelemetryFast01", <<GroupList[i], "flowError">>,
                                FALSE, OpenTime)],
               dropped |-> 0]

(***************************************************************************)
(* The environment: the clock and the sink's connection.                   *)
(***************************************************************************)
Tick ==
    /\ ticks < MaxTicks
    /\ now' = now + 1
    /\ ticks' = ticks + 1
    /\ UNCHANGED <<running, connected, has_counters, buckets, cnt, settings,
                   total_litres_tens_ml, initial_filter_duration,
                   last_temp_update, thr, main, ops, faults, hydrated, acct,
                   view, calc>>

\* The clock advances by twenty minutes at once, as during a countdown of
\* the quiet hours.
TickLong ==
    /\ ticks < MaxTicks
    /\ now' = now + 4
    /\ ticks' = ticks + 1
    /\ UNCHANGED <<running, connected, has_counters, buckets, cnt, settings,
                   total_litres_tens_ml, initial_filter_duration,
                   last_temp_update, thr, main, ops, faults, hydrated, acct,
                   view, calc>>

SinkFlips ==
    /\ connected' = ~connected
    /\ UNCHANGED <<running, now, ticks, has_counters, buckets, cnt, settings,
                   total_litres_tens_ml, initial_filter_duration,
                   last_temp_update, thr, main, ops, faults, hydrated, acct,
                   view, calc>>

\* The payloads a settings message of the server may carry.
SettingPayloads == {1, 3, 6000}

\* The setpoints, in degrees, a settings message may carry for group1
\* (web_server.py:567 allows 80..100).
SetpointPayloads == {95}

\* main_new.py:188-191, 256-292: a message of it.d8pro.server.Settings03 for
\* /manteinance/<name> or /temperature/tempSetpointGr1 arrives and its payload
\* is stored in simulator_status['settings']['data'][category][name].
UpdateMachineStatusSetting ==
    /\ \/ \E name \in {"residualCoffeeForManteinance", "waterFilterDuration"},
             payload \in SettingPayloads :
             /\ settings[name] # payload
             /\ settings' = [settings EXCEPT ![name] = payload]
       \/ \E payload \in SetpointPayloads :
             /\ settings.tempSetpointGr1 # payload
             /\ settings' = [settings EXCEPT !.tempSetpointGr1 = payload]
    /\ UNCHANGED <<running, connected, now, ticks, has_counters, buckets, cnt,
                   total_litres_tens_ml, initial_filter_duration,
                   last_temp_update, thr, main, ops, faults, hydrated, acct,
                   view, calc>>

\* What a step of one thread leaves alone besides the document.
EnvSame ==
    UNCHANGED <<connected, now, ticks, settings, initial_filter_duration, hydrated,
                view, calc>>
AcctSame == UNCHANGED acct
DocSame == UNCHANGED <<has_counters, buckets, cnt, total_litres_tens_ml>>

(***************************************************************************)
(* start_simulation / stop_simulation, called by the main thread.          *)
(***************************************************************************)
\* The call is made.
StartCall ==
    /\ main.pc = "idle"
    /\ running \/ main.epoch < MaxStarts
    /\ main' = [main EXCEPT !.pc = "st_check"]
    /\ UNCHANGED <<running, thr, ops, faults, last_temp_update>>
    /\ EnvSame /\ DocSame /\ AcctSame

\* A start that does not look at the running flag.
StartGuardAnew ==
    /\ main.pc = "st_check"
    /\ running' = TRUE
    /\ main' = [main EXCEPT !.pc = "fe_conn", !.epoch = IF @ < MaxStarts THEN @ + 1 ELSE @,
                            !.out = <<>>, !.current_time = NoValue, !.dropped = 0]
    /\ UNCHANGED <<thr, ops, faults, last_temp_update>>
    /\ EnvSame /\ DocSame /\ AcctSame

\* coffee_machine_simulator.py:41-46
StartGuard ==
    /\ main.pc = "st_check"
    /\ IF running
         THEN /\ main' = [main EXCEPT !.pc = "idle"]
              /\ UNCHANGED running
         ELSE /\ running' = TRUE
              /\ main' = [main EXCEPT !.pc = "fe_conn", !.epoch = @ + 1, !.out = <<>>,
                                      !.current_time = NoValue, !.dropped = 0]
    /\ UNCHANGED <<thr, ops, faults, last_temp_update>>
    /\ EnvSame /\ DocSame /\ AcctSame

\* coffee_machine_simulator.py:156-159
FlowErrorsBegin ==
    /\ main.pc = "fe_conn"
    /\ IF ~connected
         THEN main' = [main EXCEPT !.pc = "spawn", !.i = 1]
         ELSE main' = [main EXCEPT !.pc = "fe_send", !.i = 1, !.current_time = now]
    /\ UNCHANGED <<running, thr, ops, faults, last_temp_update>>
    /\ EnvSame /\ DocSame /\ AcctSame

\* A loop that sends the baseline of the first group at every turn.
FlowErrorSendFirstGroup ==
    /\ main.pc = "fe_send"
    /\ main' = [main EXCEPT
                  !.pc = IF main.i = Len(GroupList) THEN "spawn" ELSE @,
                  !.i = IF main.i = Len(GroupList) THEN 1 ELSE @ + 1,
                  !.out = Append(@, Event("TelemetryFast01", <<GroupList[1], "flowError">>,
                                          FALSE, main.current_time))]
    /\ UNCHANGED <<running, thr, ops, faults, last_temp_update>>
    /\ EnvSame /\ DocSame /\ AcctSame

\* coffee_machine_simulator.py:161-173: one send per group, a raise is caught.
FlowErrorSend ==
    /\ main.pc = "fe_send"
    /\ LET after == IF main.i = Len(GroupList)
                      THEN [main EXCEPT !.pc = "spawn", !.i = 1]
                      ELSE [main EXCEPT !.i = @ + 1]
       IN \/ /\ main' = [after EXCEPT !.out =
                   Append(main.out, Event("TelemetryFast01",
                          <<GroupList[main.i], "flowError">>, FALSE, main.current_time))]
             /\ UNCHANGED faults
          \/ /\ faults < MaxFaults
             /\ faults' = faults + 1
             /\ main' = [after EXCEPT !.dropped = @ + 1]
    /\ UNCHANGED <<running, thr, ops, last_temp_update>>
    /\ EnvSame /\ DocSame /\ AcctSame

\* coffee_machine_simulator.py:52-55
SpawnWorker ==
    /\ main.pc = "spawn"
    /\ LET w == <<"w", main.epoch, GroupList[main.i]>>
       IN thr' = [thr EXCEPT ![w] = Blank("top", GroupList[main.i])]
    /\ main' = IF main.i = Len(GroupList)
                 THEN [main EXCEPT !.pc = "idle", !.i = 0]
                 ELSE [main EXCEPT !.i = @ + 1]
    /\ UNCHANGED <<running, ops, faults, last_temp_update>>
    /\ EnvSame /\ DocSame /\ AcctSame

\* coffee_machine_simulator.py:57-60
StopSimulation ==
    /\ main.pc = "idle"
    /\ running' = FALSE
    /\ UNCHANGED <<thr, main, ops, faults, last_temp_update>>
    /\ EnvSame /\ DocSame /\ AcctSame

(***************************************************************************)
(* _simulate_group: the loop of one group worker.                          *)
(***************************************************************************)
Goto(p, pc1) == thr' = [thr EXCEPT ![p].pc = pc1]

ThreadOnly == UNCHANGED <<running, main, faults, last_temp_update>>

\* coffee_machine_simulator.py:64  `while self.running`
LoopTop(p) ==
    /\ IsWorker(p)
    /\ thr[p].pc = "top"
    /\ IF ~running
         THEN Goto(p, "done") /\ UNCHANGED ops
         ELSE /\ ops < MaxOps
              /\ ops' = ops + 1
              /\ Goto(p, "conn")
    /\ ThreadOnly /\ EnvSame /\ DocSame /\ AcctSame

\* coffee_machine_simulator.py:65-67
LoopConnected(p) ==
    /\ IsWorker(p)
    /\ thr[p].pc = "conn"
    /\ Goto(p, IF connected THEN "clock" ELSE "conn_sleep")
    /\ UNCHANGED ops /\ ThreadOnly /\ EnvSame /\ DocSame /\ AcctSame

\* coffee_machine_simulator.py:66  time.sleep(1); continue
DisconnectedSleep(p) ==
    /\ IsWorker(p)
    /\ thr[p].pc = "conn_sleep"
    /\ Goto(p, "top")
    /\ UNCHANGED ops /\ ThreadOnly /\ EnvSame /\ DocSame /\ AcctSame

\* A loop that draws the wait whatever the hour it has read.
LoopClockUnchecked(p) ==
    /\ IsWorker(p)
    /\ thr[p].pc = "clock"
    /\ \E n \in 1..MaxSlices :
          thr' = [thr EXCEPT ![p].pc = "count", ![p].slices = n]
    /\ UNCHANGED <<ops, running, main, faults, last_temp_update>>
    /\ EnvSame /\ DocSame /\ AcctSame

\* coffee_machine_simulator.py:70-80: the clock is read; closed, or the wait
\* is drawn. The countdown runs wait_time >= 30 iterations, of which the model
\* runs 1..MaxSlices.
LoopClock(p) ==
    /\ IsWorker(p)
    /\ thr[p].pc = "clock"
    /\ IF ShopClosed(Hour(now))
         THEN Goto(p, "closed_sleep")
         ELSE \E n \in 1..MaxSlices :
                 thr' = [thr EXCEPT ![p].pc = "count", ![p].slices = n]
    /\ UNCHANGED ops /\ ThreadOnly /\ EnvSame /\ DocSame /\ AcctSame

\* coffee_machine_simulator.py:76  time.sleep(60); continue
ClosedSleep(p) ==
    /\ IsWorker(p)
    /\ thr[p].pc = "closed_sleep"
    /\ Goto(p, "top")
    /\ UNCHANGED ops /\ ThreadOnly /\ EnvSame /\ DocSame /\ AcctSame

\* A countdown that sleeps its slices without looking at the running flag.
CountdownSliceBlind(p) ==
    /\ IsWorker(p)
    /\ thr[p].pc = "count"
    /\ thr' = [thr EXCEPT ![p].slices = @ - 1,
                          ![p].pc = IF thr[p].slices = 1 THEN "woke" ELSE "count"]
    /\ UNCHANGED <<ops, running, main, faults, last_temp_update>>
    /\ EnvSame /\ DocSame /\ AcctSame

\* coffee_machine_simulator.py:83-86: one slice of the countdown.
CountdownSlice(p) ==
    /\ IsWorker(p)
    /\ thr[p].pc = "count"
    /\ IF ~running
         THEN thr' = [thr EXCEPT ![p].pc = "done", ![p].slices = 0]
         ELSE thr' = [thr EXCEPT ![p].slices = @ - 1,
                                 ![p].pc = IF thr[p].slices = 1 THEN "woke" ELSE "count"]
    /\ UNCHANGED ops /\ ThreadOnly /\ EnvSame /\ DocSame /\ AcctSame

\* coffee_machine_simulator.py:88-89
AfterCountdown(p) ==
    /\ IsWorker(p)
    /\ thr[p].pc = "woke"
    /\ Goto(p, IF running THEN "recheck" ELSE "done")
    /\ UNCHANGED ops /\ ThreadOnly /\ EnvSame /\ DocSame /\ AcctSame

\* A loop that brews after its countdown without reading the clock again.
RecheckSkipped(p) ==
    /\ IsWorker(p)
    /\ thr[p].pc = "recheck"
    /\ Goto(p, "b_begin")
    /\ UNCHANGED <<ops, running, main, faults, last_temp_update>>
    /\ EnvSame /\ DocSame /\ AcctSame

\* coffee_machine_simulator.py:92-98
RecheckOpen(p) ==
    /\ IsWorker(p)
    /\ thr[p].pc = "recheck"
    /\ Goto(p, IF ShopClosed(Hour(now)) THEN "top" ELSE "b_begin")
    /\ UNCHANGED ops /\ ThreadOnly /\ EnvSame /\ DocSame /\ AcctSame

(***************************************************************************)
(* The data of one brew.                                                   *)
(***************************************************************************)
\* main_new.py:102-150  recipes[group].targetTime, the same for every group.
TargetTimes == <<230, 230, 270, 300>>
HasRecipe(group, coffee_type) == group \in Groups /\ coffee_type \in 1..Len(TargetTimes)
TargetTime(group, coffee_type) == TargetTimes[coffee_type]

\* coffee_machine_simulator.py:593-629 (percent = 15) and web_server.py:349-385
\* (percent = 35): the interval random.randint draws from.
\* int(target_time * 0.15) is the product cut to an integer.
ErogRange(group, coffee_type, percent) ==
    IF coffee_type \in 1..4 /\ HasRecipe(group, coffee_type)
      THEN LET target_time == TargetTime(group, coffee_type)
               variation == (target_time * percent) \div 100
               min_time == target_time - variation
               max_time == target_time + variation
           IN <<IF min_time > ErogFloor THEN min_time ELSE ErogFloor, max_time>>
      ELSE <<DefaultErogMin, DefaultErogMax>>

\* The erogation times the model draws: the low end of the interval.
ErogTimes(group, coffee_type, percent) ==
    {ErogRange(group, coffee_type, percent)[1]}

\* The flow totals the model draws, out of random.randint(300, 600).
FlowTotals == {305, 480}

\* A brew that counts every type once, types 3 and 4 included.
CoffeeIncrementFlat(coffee_type) == 1

\* coffee_machine_simulator.py:186-191
CoffeeIncrement(coffee_type) ==
    IF coffee_type \in {1, 2} THEN 1
    ELSE IF coffee_type \in {3, 4} THEN 2
    ELSE 1

\* flow_total // 10, the division that drops the tenths.
VolumeIncrementWhole(flow_total) == (flow_total \div 10) * 10

\* coffee_machine_simulator.py:262  volume_increment = flow_total / 10, a true
\* division; the document's totalVolume is held in tenths, so the increment
\* in tenths is flow_total itself.
VolumeIncrementTenths(flow_total) == flow_total

\* The handler that catches a raise inside the brew: _brew_coffee's
\* (coffee_machine_simulator.py:151) or manual_brew_coffee's (web_server.py:345).
\* A brew whose exception is not caught and ends the worker's thread.
BrewUncaught(p) == IF IsWorker(p) THEN "done" ELSE "h_resp"

BrewCatch(p) == IF IsWorker(p) THEN "b_end" ELSE "h_resp"

\* A timestamp taken anew at every send.
StampOfSend(p) == now

\* The timestamp the brew gives its events.
Stamp(p) == thr[p].current_time

\* send(...) returns.
Sent(p, ev, pc1) ==
    /\ thr' = [thr EXCEPT ![p].out = Append(@, Logged(ev)), ![p].sent = ev, ![p].pc = pc1]
    /\ UNCHANGED faults

\* send(...) raises, and the handler at pc1 takes over.
Raised(p, pc1, res) ==
    /\ faults < MaxFaults
    /\ faults' = faults + 1
    /\ thr' = [thr EXCEPT ![p].pc = pc1, ![p].clean = FALSE, ![p].result = res]

Quiet == UNCHANGED <<running, main, ops, last_temp_update>>

(***************************************************************************)
(* _brew_coffee (worker) and manual_brew_coffee (request thread) up to the *)
(* counter update.                                                         *)
(***************************************************************************)
\* A brew that begins without asking whether the sink is connected.
BrewBeginUnpolled(p) ==
    /\ IsWorker(p)
    /\ thr[p].pc = "b_begin"
    /\ \E coffee_type \in CoffeeTypes, flow_total \in FlowTotals :
       \E erog_time \in ErogTimes(thr[p].group, coffee_type, 15) :
          thr' = [thr EXCEPT ![p].pc = "s_type",
                             ![p].coffee_type = coffee_type,
                             ![p].erog_time = erog_time,
                             ![p].flow_total = flow_total,
                             ![p].current_time = now]
    /\ UNCHANGED <<faults, running, main, ops, last_temp_update>>
    /\ EnvSame /\ DocSame /\ AcctSame

\* coffee_machine_simulator.py:102-113
BrewBegin(p) ==
    /\ IsWorker(p)
    /\ thr[p].pc = "b_begin"
    /\ IF ~connected
         THEN Goto(p, "top")
         ELSE \E coffee_type \in CoffeeTypes, flow_total \in FlowTotals :
              \E erog_time \in ErogTimes(thr[p].group, coffee_type, 15) :
                 thr' = [thr EXCEPT ![p].pc = "s_type",
                                    ![p].coffee_type = coffee_type,
                                    ![p].erog_time = erog_time,
                                    ![p].flow_total = flow_total,
                                    ![p].current_time = now]
    /\ UNCHANGED faults /\ Quiet /\ EnvSame /\ DocSame /\ AcctSame

\* coffee_machine_simulator.py:116-121, web_server.py:310-315
SendCoffeeType(p) ==
    /\ thr[p].pc = "s_type"
    /\ \/ Sent(p, Event("TelemetryFast01", <<thr[p].group, "coffeeType">>,
                        thr[p].coffee_type, Stamp(p)), "s_erog")
       \/ Raised(p, BrewCatch(p), "failed")
    /\ Quiet /\ EnvSame /\ DocSame /\ AcctSame

\* coffee_machine_simulator.py:127-132, web_server.py:319-324
SendErogTime(p) ==
    /\ thr[p].pc = "s_erog"
    /\ \/ Sent(p, Event("TelemetryFast01", <<thr[p].group, "erogTime">>,
                        thr[p].erog_time, Stamp(p)), "s_flow")
       \/ Raised(p, BrewCatch(p), "failed")
    /\ Quiet /\ EnvSame /\ DocSame /\ AcctSame

\* coffee_machine_simulator.py:138-146, web_server.py:328-337
SendFlowTotal(p) ==
    /\ thr[p].pc = "s_flow"
    /\ \/ Sent(p, Event("TelemetryFast01", <<thr[p].group, "flowTotal">>,
                        thr[p].flow_total, Stamp(p)), "u_guard")
       \/ Raised(p, BrewCatch(p), "failed")
    /\ Quiet /\ EnvSame /\ DocSame /\ AcctSame

(***************************************************************************)
(* _update_and_send_counters.                                              *)
(***************************************************************************)
UpdatePcs ==
    {"u_mkgrp", "u_kchk", "u_kmk", "u_krd", "u_kwr", "u_ksend",
     "u_tchk", "u_tmk", "u_trd", "u_twr", "u_tsend",
     "u_Trd", "u_Twr", "u_Tsend", "u_Vrd", "u_Vwr", "u_Vsend",
     "r_chk", "r_mk", "r_rd", "r_wr", "r_send",
     "m_rd", "m_wr", "m_pump", "m_filt", "u_ret"}

InUpdate(q) == thr[q].pc \in UpdatePcs

KPath(p) == <<thr[p].group, CoffeeKey(thr[p].coffee_type)>>
TcPath(p) == <<thr[p].group, "totalCoffee">>
TotalCoffeePath == <<"total", "totalCoffee">>
TotalVolumePath == <<"total", "totalVolume">>
ResidualPath == <<"total", "residualCoffeeActivation">>

\* The entry whose `value += ...` thread q is in the middle of: the entry object
\* is looked up once, before the read, and the write goes to that object.
RefOf(q) ==
    CASE thr[q].pc = "u_kwr" -> KPath(q)
      [] thr[q].pc = "u_twr" -> TcPath(q)
      [] thr[q].pc = "u_Twr" -> TotalCoffeePath
      [] thr[q].pc = "u_Vwr" -> TotalVolumePath
      [] OTHER -> <<>>

ValueOr(path, default) == IF Has(path) THEN cnt[path] ELSE default

SnapOf(p) ==
    [k |-> ValueOr(KPath(p), 0), tc |-> ValueOr(TcPath(p), 0),
     T |-> ValueOr(TotalCoffeePath, NoValue), V |-> ValueOr(TotalVolumePath, NoValue),
     R |-> ValueOr(ResidualPath, ResidualCoffeeSetting(settings)),
     L |-> total_litres_tens_ml]

\* An exception inside the update: caught at coffee_machine_simulator.py:283.
UpdateAbort(p) ==
    thr' = [thr EXCEPT ![p].pc = "u_ret", ![p].clean = FALSE, ![p].val = 0, ![p].stale = FALSE]

\* coffee_machine_simulator.py:177-198
UpdateGuard(p) ==
    /\ thr[p].pc = "u_guard"
    /\ IF ~has_counters
         THEN thr' = [thr EXCEPT ![p].pc = "u_ret", ![p].clean = FALSE]
         ELSE thr' = [q \in Threads |->
                IF q = p
                  THEN [thr[p] EXCEPT
                          !.pc = IF thr[p].group \in buckets THEN "u_kchk" ELSE "u_mkgrp",
                          !.coffee_increment = CoffeeIncrement(thr[p].coffee_type),
                          !.alone = \A r \in Threads \ {p} : ~InUpdate(r),
                          !.snap = IF \A r \in Threads \ {p} : ~InUpdate(r)
                                     THEN SnapOf(p) ELSE NoSnap]
                ELSE IF InUpdate(q) THEN [thr[q] EXCEPT !.alone = FALSE, !.snap = NoSnap]
                ELSE thr[q]]
    /\ UNCHANGED faults /\ Quiet /\ EnvSame /\ DocSame /\ AcctSame

\* coffee_machine_simulator.py:198  counters_data[group] = {}: a new, empty
\* dictionary takes the group's place.
CreateGroup(p) ==
    /\ thr[p].pc = "u_mkgrp"
    /\ buckets' = buckets \cup {thr[p].group}
    /\ cnt' = [path \in {q \in DOMAIN cnt : q[1] # thr[p].group} |-> cnt[path]]
    /\ thr' = [q \in Threads |->
                IF q = p THEN [thr[p] EXCEPT !.pc = "u_kchk", !.touched = TRUE]
                ELSE IF RefOf(q) # <<>> /\ RefOf(q)[1] = thr[p].group
                       THEN [thr[q] EXCEPT !.stale = TRUE]
                ELSE thr[q]]
    /\ UNCHANGED <<has_counters, total_litres_tens_ml, faults>>
    /\ Quiet /\ EnvSame /\ AcctSame

\* `if key not in counters_data[group]`: absent, the entry is created next;
\* present, nothing can take it away before the `+=` that follows reads it, and
\* the two are one step.
LazyCheck(p, pc0, path, pcMk, pcWr) ==
    /\ thr[p].pc = pc0
    /\ IF Has(path)
         THEN thr' = [thr EXCEPT ![p].pc = pcWr, ![p].val = cnt[path], ![p].stale = FALSE]
         ELSE Goto(p, pcMk)
    /\ UNCHANGED faults /\ Quiet /\ EnvSame /\ DocSame /\ AcctSame

\* `counters_data[group][key] = {'value': 0, ...}`: a new entry takes the place
\* of whatever entry is there by now.
LazyCreate(p, pc0, path, pcRd) ==
    /\ thr[p].pc = pc0
    /\ cnt' = (path :> 0) @@ cnt
    /\ thr' = [q \in Threads |->
                IF q = p THEN [thr[p] EXCEPT !.pc = pcRd, !.touched = TRUE]
                ELSE IF RefOf(q) = path THEN [thr[q] EXCEPT !.stale = TRUE]
                ELSE thr[q]]
    /\ UNCHANGED <<has_counters, buckets, total_litres_tens_ml, faults>>
    /\ Quiet /\ EnvSame /\ AcctSame

\* The left side of `entry['value'] += increment` is evaluated and read.
ReadEntry(p, pc0, path, pcWr) ==
    /\ thr[p].pc = pc0
    /\ IF Has(path)
         THEN thr' = [thr EXCEPT ![p].pc = pcWr, ![p].val = cnt[path], ![p].stale = FALSE]
         ELSE UpdateAbort(p)
    /\ UNCHANGED faults /\ Quiet /\ EnvSame /\ DocSame /\ AcctSame

\* The sum is stored in the entry that was read, then the entry's timestamps
\* are set through the document (a KeyError when the key is gone by now).
WriteEntry(p, pc0, path, increment, pcSend) ==
    /\ thr[p].pc = pc0
    /\ IF ~Has(path)
         THEN UpdateAbort(p) /\ UNCHANGED cnt
         ELSE /\ cnt' = IF thr[p].stale THEN cnt
                        ELSE [cnt EXCEPT ![path] = thr[p].val + increment]
              /\ thr' = [thr EXCEPT ![p].pc = pcSend, ![p].touched = TRUE,
                                    ![p].val = 0, ![p].stale = FALSE]
    /\ UNCHANGED <<has_counters, buckets, total_litres_tens_ml, faults>>
    /\ Quiet /\ EnvSame /\ AcctSame

\* send(Counters02, path, counters_data[...]['value']): the value is read again.
SendEntry(p, pc0, path, pcNext) ==
    /\ thr[p].pc = pc0
    /\ IF ~Has(path)
         THEN UpdateAbort(p) /\ UNCHANGED faults
         ELSE \/ Sent(p, Event("Counters02", path, cnt[path], Stamp(p)), pcNext)
              \/ Raised(p, "u_ret", thr[p].result)
    /\ Quiet /\ EnvSame /\ DocSame /\ AcctSame

\* coffee_machine_simulator.py:201-221  the group's k{coffee_type}
KCheck(p) == LazyCheck(p, "u_kchk", KPath(p), "u_kmk", "u_kwr")
KCreate(p) == LazyCreate(p, "u_kmk", KPath(p), "u_krd")
KRead(p) == ReadEntry(p, "u_krd", KPath(p), "u_kwr")
KWrite(p) == WriteEntry(p, "u_kwr", KPath(p), thr[p].coffee_increment, "u_ksend")
KSend(p) == SendEntry(p, "u_ksend", KPath(p), "u_tchk")

\* coffee_machine_simulator.py:225-244  the group's totalCoffee
TcCheck(p) == LazyCheck(p, "u_tchk", TcPath(p), "u_tmk", "u_twr")
TcCreate(p) == LazyCreate(p, "u_tmk", TcPath(p), "u_trd")
TcRead(p) == ReadEntry(p, "u_trd", TcPath(p), "u_twr")
TcWrite(p) == WriteEntry(p, "u_twr", TcPath(p), thr[p].coffee_increment, "u_tsend")
TcSend(p) == SendEntry(p, "u_tsend", TcPath(p), "u_Trd")

\* coffee_machine_simulator.py:247-248 and :263-264: `key in counters_data['total']`
\* (a KeyError without the 'total' bucket), then the entry is read.
\* A totals step that creates the key it misses, as the group steps do.
TotalReadCreating(p, pc0, path, pcWr, pcSkip) ==
    /\ thr[p].pc = pc0
    /\ IF "total" \notin buckets THEN UpdateAbort(p) /\ UNCHANGED cnt
       ELSE /\ cnt' = IF Has(path) THEN cnt ELSE (path :> 0) @@ cnt
            /\ thr' = [thr EXCEPT ![p].pc = pcWr, ![p].val = ValueOr(path, 0),
                                  ![p].stale = FALSE]
    /\ UNCHANGED <<faults, has_counters, buckets, total_litres_tens_ml>>
    /\ Quiet /\ EnvSame /\ AcctSame

\* `if key in counters_data['total']`: a KeyError when the document has no
\* totals bucket; the key missing, the step is skipped.
TotalRead(p, pc0, path, pcWr, pcSkip) ==
    /\ thr[p].pc = pc0
    /\ IF "total" \notin buckets THEN UpdateAbort(p)
       ELSE IF Has(path)
         THEN thr' = [thr EXCEPT ![p].pc = pcWr, ![p].val = cnt[path], ![p].stale = FALSE]
         ELSE Goto(p, pcSkip)
    /\ UNCHANGED faults /\ Quiet /\ EnvSame /\ DocSame /\ AcctSame

\* coffee_machine_simulator.py:247-259  the totals-level totalCoffee
TotalCoffeeRead(p) == TotalRead(p, "u_Trd", TotalCoffeePath, "u_Twr", "u_Vrd")
TotalCoffeeWrite(p) ==
    WriteEntry(p, "u_Twr", TotalCoffeePath, thr[p].coffee_increment, "u_Tsend")
TotalCoffeeSend(p) == SendEntry(p, "u_Tsend", TotalCoffeePath, "u_Vrd")

\* coffee_machine_simulator.py:262-275  the totals-level totalVolume
TotalVolumeRead(p) == TotalRead(p, "u_Vrd", TotalVolumePath, "u_Vwr", "r_chk")
TotalVolumeWrite(p) ==
    WriteEntry(p, "u_Vwr", TotalVolumePath, VolumeIncrementTenths(thr[p].flow_total), "u_Vsend")
TotalVolumeSend(p) == SendEntry(p, "u_Vsend", TotalVolumePath, "r_chk")

(***************************************************************************)
(* _update_residual_coffee_activation.                                     *)
(***************************************************************************)
\* coffee_machine_simulator.py:290-295
ResidualCheck(p) == LazyCheck(p, "r_chk", ResidualPath, "r_mk", "r_wr")

\* coffee_machine_simulator.py:297-303
ResidualCreate(p) ==
    /\ thr[p].pc = "r_mk"
    /\ cnt' = (ResidualPath :> ResidualCoffeeSetting(settings)) @@ cnt
    /\ thr' = [thr EXCEPT ![p].pc = "r_rd", ![p].touched = TRUE]
    /\ UNCHANGED <<has_counters, buckets, total_litres_tens_ml, faults>>
    /\ Quiet /\ EnvSame /\ AcctSame

\* coffee_machine_simulator.py:306  current_value
ResidualRead(p) ==
    /\ thr[p].pc = "r_rd"
    /\ thr' = [thr EXCEPT ![p].pc = "r_wr", ![p].val = cnt[ResidualPath]]
    /\ UNCHANGED faults /\ Quiet /\ EnvSame /\ DocSame /\ AcctSame

\* The value the brew stores for a residual it read as current_value.
ResidualNewValue(current_value) == current_value - 1

\* coffee_machine_simulator.py:307-312  new_value is stored through the document
ResidualWrite(p) ==
    /\ thr[p].pc = "r_wr"
    /\ cnt' = [cnt EXCEPT ![ResidualPath] = ResidualNewValue(thr[p].val)]
    /\ thr' = [thr EXCEPT ![p].pc = "r_send", ![p].val = ResidualNewValue(thr[p].val),
                          ![p].touched = TRUE]
    /\ UNCHANGED <<has_counters, buckets, total_litres_tens_ml, faults>>
    /\ Quiet /\ EnvSame /\ AcctSame

\* coffee_machine_simulator.py:315-324: new_value is sent; a raise is caught
\* here and the maintenance counters follow.
ResidualSend(p) ==
    /\ thr[p].pc = "r_send"
    /\ \/ Sent(p, Event("Counters02", <<"residualCoffeeActivation">>, thr[p].val, Stamp(p)),
               "m_rd")
       \/ Raised(p, "m_rd", thr[p].result)
    /\ Quiet /\ EnvSame /\ DocSame /\ AcctSame

(***************************************************************************)
(* _update_maintenance_counters.                                           *)
(***************************************************************************)
\* coffee_machine_simulator.py:370  self.total_litres_tens_ml += flow_total, read
LitresRead(p) ==
    /\ thr[p].pc = "m_rd"
    /\ thr' = [thr EXCEPT ![p].pc = "m_wr", ![p].val = total_litres_tens_ml]
    /\ UNCHANGED faults /\ Quiet /\ EnvSame /\ DocSame /\ AcctSame

\* coffee_machine_simulator.py:370, stored
LitresWrite(p) ==
    /\ thr[p].pc = "m_wr"
    /\ total_litres_tens_ml' = thr[p].val + thr[p].flow_total
    /\ thr' = [thr EXCEPT ![p].pc = "m_pump", ![p].touched = TRUE, ![p].val = 0]
    /\ UNCHANGED <<has_counters, buckets, cnt, faults>>
    /\ Quiet /\ EnvSame /\ AcctSame

\* A send of the value residualCoffeeActivation held before its decrement.
PumpSendUndecremented(p) ==
    /\ thr[p].pc = "m_pump"
    /\ \/ Sent(p, Event("TelemetrySlow01", <<"manteinance", "residualPumpActivation">>,
                        ValueOr(ResidualPath, 0) + 1, Stamp(p)), "m_filt")
       \/ Raised(p, "u_ret", thr[p].result)
    /\ Quiet /\ EnvSame /\ DocSame /\ AcctSame

\* coffee_machine_simulator.py:373-387
PumpSend(p) ==
    /\ thr[p].pc = "m_pump"
    /\ \/ Sent(p, Event("TelemetrySlow01", <<"manteinance", "residualPumpActivation">>,
                        ValueOr(ResidualPath, 0), Stamp(p)), "m_filt")
       \/ Raised(p, "u_ret", thr[p].result)
    /\ Quiet /\ EnvSame /\ DocSame /\ AcctSame

\* int(x) of a quotient a / b with b > 0: cut towards zero.
IntOfQuotient(a, b) == IF a >= 0 THEN a \div b ELSE -((-a) \div b)

\* coffee_machine_simulator.py:391-395  int(initial_filter_duration - tens_ml / 100.0)
ResidualFilterLiters(filter_duration, litres_tens_ml) ==
    IntOfQuotient(filter_duration * 100 - litres_tens_ml, 100)

\* A send that asks the settings for the filter duration at every brew.
FilterSendFromSetting(p) ==
    /\ thr[p].pc = "m_filt"
    /\ \/ Sent(p, Event("TelemetrySlow01", <<"manteinance", "residualFilterLiters">>,
                        ResidualFilterLiters(WaterFilterDurationSetting(settings),
                                             total_litres_tens_ml),
                        Stamp(p)), "u_ret")
       \/ Raised(p, "u_ret", thr[p].result)
    /\ Quiet /\ EnvSame /\ DocSame /\ AcctSame

\* coffee_machine_simulator.py:391-407
FilterSend(p) ==
    /\ thr[p].pc = "m_filt"
    /\ \/ Sent(p, Event("TelemetrySlow01", <<"manteinance", "residualFilterLiters">>,
                        ResidualFilterLiters(initial_filter_duration, total_litres_tens_ml),
                        Stamp(p)), "u_ret")
       \/ Raised(p, "u_ret", thr[p].result)
    /\ Quiet /\ EnvSame /\ DocSame /\ AcctSame

\* _update_and_send_counters returns to _brew_coffee (coffee_machine_simulator.py:149)
\* or to manual_brew_coffee (web_server.py:339-343).
UpdateReturn(p) ==
    /\ thr[p].pc = "u_ret"
    /\ thr' = IF IsWorker(p) THEN [thr EXCEPT ![p].pc = "t_chk"]
              ELSE [thr EXCEPT ![p].pc = "h_resp", ![p].result = "success"]
    /\ acct' = IF thr[p].clean
                 THEN [coffee |-> [acct.coffee EXCEPT ![thr[p].group] =
                                       @ + CoffeeIncrement(thr[p].coffee_type)],
                       flow |-> acct.flow + thr[p].flow_total,
                       n |-> acct.n + 1]
                 ELSE acct
    /\ UNCHANGED faults /\ Quiet /\ EnvSame /\ DocSame

(***************************************************************************)
(* _check_and_update_temperature, after a worker's brew.                   *)
(***************************************************************************)
\* coffee_machine_simulator.py:576-580, in tenths of a degree.
SetpointTenths(group) ==
    CASE group = "group1" -> 920
      [] group = "group2" -> 900
      [] OTHER -> 925

\* The intervals the model draws, out of random.randint(600, 1200).
UpdateIntervals == {600, 900, 1200}

\* The variations the model draws, out of random.uniform(-5.0, 5.0), in tenths.
TempVariations == {-50, 0, 50}

\* A check that asks for more than the interval drawn.
TempCheckStrict(p) ==
    /\ thr[p].pc = "t_chk"
    /\ IF last_temp_update[thr[p].group] = NoValue
         THEN Goto(p, "t_set")
         ELSE \E update_interval \in UpdateIntervals :
                LET time_diff == (thr[p].current_time - last_temp_update[thr[p].group])
                                    * TickSeconds
                IN Goto(p, IF time_diff > update_interval THEN "t_set" ELSE "b_end")
    /\ UNCHANGED faults /\ Quiet /\ EnvSame /\ DocSame /\ AcctSame

\* coffee_machine_simulator.py:495-507
TempCheck(p) ==
    /\ thr[p].pc = "t_chk"
    /\ IF last_temp_update[thr[p].group] = NoValue
         THEN Goto(p, "t_set")
         ELSE \E update_interval \in UpdateIntervals :
                LET time_diff == (thr[p].current_time - last_temp_update[thr[p].group])
                                    * TickSeconds
                IN Goto(p, IF time_diff >= update_interval THEN "t_set" ELSE "b_end")
    /\ UNCHANGED faults /\ Quiet /\ EnvSame /\ DocSame /\ AcctSame

\* coffee_machine_simulator.py:522-536
TempSet(p) ==
    /\ thr[p].pc = "t_set"
    /\ last_temp_update' = [last_temp_update EXCEPT ![thr[p].group] = thr[p].current_time]
    /\ Goto(p, "t_send")
    /\ UNCHANGED <<running, main, ops, faults>>
    /\ EnvSame /\ DocSame /\ AcctSame

\* coffee_machine_simulator.py:539-549
TempSend(p) ==
    /\ thr[p].pc = "t_send"
    /\ \/ \E variation \in TempVariations :
             Sent(p, Event("TelemetryFast01", <<thr[p].group, "currentTemp">>,
                           SetpointTenths(thr[p].group) + variation, Stamp(p)), "b_end")
       \/ Raised(p, "b_end", thr[p].result)
    /\ Quiet /\ EnvSame /\ DocSame /\ AcctSame

\* _brew_coffee returns and the loop goes round.
BrewEnd(p) ==
    /\ thr[p].pc = "b_end"
    /\ thr' = [thr EXCEPT ![p] = Blank("top", thr[p].group)]
    /\ UNCHANGED faults /\ Quiet /\ EnvSame /\ DocSame /\ AcctSame

(***************************************************************************)
(* POST /api/brew_coffee: brew_coffee and manual_brew_coffee.              *)
(***************************************************************************)
\* The groups and coffee types a request may carry.
RequestGroups == Groups \cup {"group9"}
RequestTypes == 0..8

\* A request arrives and a thread of the server takes it.
Request(p) ==
    /\ ~IsWorker(p)
    /\ thr[p].pc = "idle"
    /\ ops < MaxOps
    /\ ops' = ops + 1
    /\ \E group \in RequestGroups, coffee_type \in RequestTypes :
          thr' = [thr EXCEPT ![p] = [Blank("h_valid", group) EXCEPT
                                        !.coffee_type = coffee_type]]
    /\ ThreadOnly /\ EnvSame /\ DocSame /\ AcctSame

\* A validation that checks the coffee type and forgets the group.
ValidationOfTypeOnly(coffee_type, group, is_connected) ==
    IF coffee_type = 0 \/ coffee_type \notin 1..7 THEN "invalid_type"
    ELSE IF ~is_connected THEN "not_connected"
    ELSE "brew"

\* web_server.py:250-257: what brew_coffee answers before it brews, or "brew".
Validation(coffee_type, group, is_connected) ==
    IF coffee_type = 0 \/ coffee_type \notin 1..7 THEN "invalid_type"
    ELSE IF group \notin {"group1", "group2", "group3"} THEN "invalid_group"
    ELSE IF ~is_connected THEN "not_connected"
    ELSE "brew"

\* web_server.py:242-260
HandlerValidate(p) ==
    /\ thr[p].pc = "h_valid"
    /\ LET v == Validation(thr[p].coffee_type, thr[p].group, connected)
       IN thr' = IF v = "brew" THEN [thr EXCEPT ![p].pc = "mb_begin"]
                 ELSE [thr EXCEPT ![p].pc = "h_resp", ![p].result = v]
    /\ UNCHANGED faults /\ Quiet /\ EnvSame /\ DocSame /\ AcctSame

\* A manual brew that begins without asking whether the sink is connected.
ManualBeginUnchecked(p) ==
    /\ thr[p].pc = "mb_begin"
    /\ \E flow_total \in FlowTotals :
       \E erog_time \in ErogTimes(thr[p].group, thr[p].coffee_type, 35) :
          thr' = [thr EXCEPT ![p].pc = "mb_rate",
                             ![p].erog_time = erog_time,
                             ![p].flow_total = flow_total,
                             ![p].current_time = now]
    /\ UNCHANGED faults /\ Quiet /\ EnvSame /\ DocSame /\ AcctSame

\* web_server.py:283-292
ManualBegin(p) ==
    /\ thr[p].pc = "mb_begin"
    /\ IF ~connected
         THEN thr' = [thr EXCEPT ![p].pc = "h_resp", ![p].result = "failed"]
         ELSE \E flow_total \in FlowTotals :
              \E erog_time \in ErogTimes(thr[p].group, thr[p].coffee_type, 35) :
                 thr' = [thr EXCEPT ![p].pc = "mb_rate",
                                    ![p].erog_time = erog_time,
                                    ![p].flow_total = flow_total,
                                    ![p].current_time = now]
    /\ UNCHANGED faults /\ Quiet /\ EnvSame /\ DocSame /\ AcctSame

\* web_server.py:295-307: erog_time \div 20 + 1 flowRate events, which the model
\* keeps as one event whose value is their number.
FlowRateLoop(p) ==
    /\ thr[p].pc = "mb_rate"
    /\ \/ Sent(p, Event("TelemetryFast01", <<thr[p].group, "flowRate">>,
                        thr[p].erog_time \div 20 + 1, Stamp(p)), "s_type")
       \/ Raised(p, "h_resp", "failed")
    /\ Quiet /\ EnvSame /\ DocSame /\ AcctSame

\* brew_coffee answers (web_server.py:262-274) and the thread is free again.
Respond(p) ==
    /\ thr[p].pc = "h_resp"
    /\ thr' = [thr EXCEPT ![p] = Blank("idle", "none")]
    /\ UNCHANGED faults /\ Quiet /\ EnvSame /\ DocSame /\ AcctSame

(***************************************************************************)
(* The pure functions: the erogation-time resolver and the demand model.   *)
(***************************************************************************)
\* The lookups the resolver makes, in order: simulator_status, 'recipes' in
\* it, the group in the recipes, 'targetTime' in the group's recipe, the
\* coffee type in that table. A document is the number of lookups that
\* succeed on it, and the target time they lead to when all five do.
Lookups == <<"simulator_status", "recipes", "group", "targetTime", "coffee_type">>

RecipeDocs ==
    {[depth |-> d, target_time |-> NoValue] : d \in 0..(Len(Lookups) - 1)}
    \cup {[depth |-> Len(Lookups), target_time |-> t] : t \in 1..MaxTarget}

\* The target times for which the floating-point product target_time * 0.35
\* falls just below the integer it equals, so that int() gives one less:
\* 180 * 0.35 is 62.99999999999999. No such target time for 0.15 below 1000.
ShortProducts(percent) == IF percent = 35 THEN {180, 340, 360, 660, 680, 700, 720} ELSE {}

\* A variation rounded up instead of cut.
VariationRoundedUp(target_time, percent) == (target_time * percent + 99) \div 100

\* coffee_machine_simulator.py:611 int(target_time * 0.15), web_server.py:367
\* int(target_time * 0.35), for target times below 1000.
Variation(target_time, percent) ==
    (target_time * percent) \div 100 - (IF target_time \in ShortProducts(percent) THEN 1 ELSE 0)

\* What a call of the resolver gives its caller.
Returned(values) == {[raised |-> FALSE, value |-> v] : v \in values}
RaisedToCaller == {[raised |-> TRUE, value |-> NoValue]}

\* A resolver that indexes the document without looking and catches nothing.
ErogOutcomesUnchecked(doc, coffee_type, percent) ==
    IF coffee_type \in 1..4
      THEN IF doc.depth < Len(Lookups) THEN RaisedToCaller
           ELSE LET variation == Variation(doc.target_time, percent)
                    min_time == doc.target_time - variation
                    max_time == doc.target_time + variation
                    low == IF min_time > ErogFloor THEN min_time ELSE ErogFloor
                IN IF low <= max_time THEN Returned(low..max_time) ELSE RaisedToCaller
      ELSE Returned(DefaultErogMin..DefaultErogMax)

\* coffee_machine_simulator.py:593-629 (percent = 15), web_server.py:349-385
\* (percent = 35). random.randint(min_time, max_time) raises ValueError when
\* min_time > max_time; the handler of lines 627-629 then draws the default.
ErogOutcomes(doc, coffee_type, percent) ==
    IF coffee_type \in 1..4 /\ doc.depth = Len(Lookups)
      THEN LET variation == Variation(doc.target_time, percent)
               min_time == doc.target_time - variation
               max_time == doc.target_time + variation
               low == IF min_time > ErogFloor THEN min_time ELSE ErogFloor
           IN IF low <= max_time THEN Returned(low..max_time)
              ELSE Returned(DefaultErogMin..DefaultErogMax)
      ELSE Returned(DefaultErogMin..DefaultErogMax)

\* The bands of the day with `<=` for `<` at their upper ends.
WaitBandInclusive(current_hour) ==
    IF 7 <= current_hour /\ current_hour <= 10 THEN <<200, 60>>
    ELSE IF 12 <= current_hour /\ current_hour <= 14 THEN <<220, 60>>
    ELSE IF 10 <= current_hour /\ current_hour <= 12 THEN <<360, 120>>
    ELSE IF 14 <= current_hour /\ current_hour <= 18 THEN <<720, 180>>
    ELSE <<2580, 600>>

\* coffee_machine_simulator.py:427-455: base_wait and variation of the hour.
WaitBand(current_hour) ==
    IF 7 <= current_hour /\ current_hour < 10 THEN <<200, 60>>
    ELSE IF 12 <= current_hour /\ current_hour < 14 THEN <<220, 60>>
    ELSE IF 10 <= current_hour /\ current_hour < 12 THEN <<360, 120>>
    ELSE IF 14 <= current_hour /\ current_hour < 18 THEN <<720, 180>>
    ELSE <<2580, 600>>

\* coffee_machine_simulator.py:458-467: random.randint(min_wait, max_wait).
WaitTimes(current_hour) ==
    LET base_wait == WaitBand(current_hour)[1]
        variation == WaitBand(current_hour)[2]
        min_wait == IF base_wait - variation > 30 THEN base_wait - variation ELSE 30
        max_wait == base_wait + variation
    IN min_wait..max_wait

CalcOnly ==
    UNCHANGED <<running, connected, now, ticks, has_counters, buckets, cnt, settings,
                total_litres_tens_ml, initial_filter_duration,
                last_temp_update, thr, main, ops, faults, hydrated, acct, view>>

\* _get_erog_time_for_coffee_type(group, coffee_type) is called, by a worker
\* (percent 15) or by a manual brew (percent 35), on some recipes document.
ErogCall ==
    /\ calc = NoCalc
    /\ \E doc \in RecipeDocs, coffee_type \in CoffeeTypes, percent \in {15, 35} :
          calc' = [fn |-> "erog_time", doc |-> doc, coffee_type |-> coffee_type,
                   percent |-> percent, done |-> FALSE,
                   result |-> [raised |-> FALSE, value |-> NoValue]]
    /\ CalcOnly

ErogReturn ==
    /\ calc.fn = "erog_time" /\ ~calc.done
    /\ \E r \in ErogOutcomes(calc.doc, calc.coffee_type, calc.percent) :
          calc' = [calc EXCEPT !.done = TRUE, !.result = r]
    /\ CalcOnly

\* _get_realistic_wait_time(current_hour) is called with some hour of the day.
WaitCall ==
    /\ calc = NoCalc
    /\ \E current_hour \in 0..23 :
          calc' = [fn |-> "wait_time", current_hour |-> current_hour, done |-> FALSE,
                   result |-> NoValue]
    /\ CalcOnly

WaitReturn ==
    /\ calc.fn = "wait_time" /\ ~calc.done
    /\ \E wait_time \in WaitTimes(calc.current_hour) :
          calc' = [calc EXCEPT !.done = TRUE, !.result = wait_time]
    /\ CalcOnly

(***************************************************************************)
(* The status page of the web server.                                      *)
(***************************************************************************)
\* web_server.py:387-391: get_local_counters returns simulator_status['counters'],
\* the dictionary the brews update, and no copy of it. `seen` keeps what the
\* dictionary held when it was returned.
GetLocalCounters ==
    /\ view = NoView
    /\ has_counters
    /\ view' = [ref |-> "counters", seen |-> cnt]
    /\ UNCHANGED <<running, connected, now, ticks, has_counters, buckets, cnt, settings,
                   total_litres_tens_ml, initial_filter_duration,
                   last_temp_update, thr, main, ops, faults, hydrated, acct, calc>>

\* What the holder of the returned value reads in it now.
SnapshotValue == IF view.ref = "counters" THEN cnt ELSE view.seen

(***************************************************************************)
(* The steps of the threads, grouped as the specifications take them.      *)
(***************************************************************************)
\* The loop of a worker while the shop is open and the sink connected.
LoopStep(p) ==
    \/ LoopTop(p) \/ LoopConnected(p) \/ LoopClock(p) \/ CountdownSlice(p)
    \/ AfterCountdown(p) \/ RecheckOpen(p) \/ BrewBegin(p) \/ BrewEnd(p)

\* Its sleeps while the sink is away or the shop closed.
SleepStep(p) == DisconnectedSleep(p) \/ ClosedSleep(p)

TempStep(p) == TempCheck(p) \/ TempSet(p) \/ TempSend(p)

RequestStep(p) ==
    \/ Request(p) \/ HandlerValidate(p) \/ ManualBegin(p) \/ FlowRateLoop(p) \/ Respond(p)

\* The fast telemetry of a brew and the counter update on a document that
\* holds every counter but the residual.
BrewStep(p) ==
    \/ SendCoffeeType(p) \/ SendErogTime(p) \/ SendFlowTotal(p)
    \/ UpdateGuard(p)
    \/ KCheck(p) \/ KWrite(p) \/ KSend(p)
    \/ TcCheck(p) \/ TcWrite(p) \/ TcSend(p)
    \/ TotalCoffeeRead(p) \/ TotalCoffeeWrite(p) \/ TotalCoffeeSend(p)
    \/ TotalVolumeRead(p) \/ TotalVolumeWrite(p) \/ TotalVolumeSend(p)
    \/ ResidualCheck(p) \/ ResidualCreate(p) \/ ResidualRead(p) \/ ResidualWrite(p)
    \/ ResidualSend(p)
    \/ LitresRead(p) \/ LitresWrite(p) \/ PumpSend(p) \/ FilterSend(p)
    \/ UpdateReturn(p)

\* The steps that create a missing group or a missing group counter.
LazyStep(p) ==
    \/ CreateGroup(p) \/ KCreate(p) \/ KRead(p) \/ TcCreate(p) \/ TcRead(p)

MainStep ==
    \/ StartCall \/ StartGuard \/ FlowErrorsBegin \/ FlowErrorSend \/ SpawnWorker
    \/ StopSimulation

\* Thread q is between two pieces of work.
Resting(q) == thr[q].pc \in {"none", "top", "done", "idle"}

\* No thread but p is in the middle of an iteration or of a request.
OneAtATime(p) == \A q \in Threads \ {p} : Resting(q)

\* The step of p has drawn its coffee type and flow total, and a request its
\* group, from the given samples.
Drawn(p, types, flows, groups) ==
    /\ thr'[p].coffee_type \in types \cup {0}
    /\ thr'[p].flow_total \in flows \cup {0}
    /\ IsWorker(p) \/ thr'[p].group \in groups \cup {"none"}

(***************************************************************************)
(* Spec: the life of the simulator from its construction. The main thread  *)
(* starts and stops it, the clock advances, the sink comes and goes, sends *)
(* may raise; one worker is in the middle of an iteration at a time, and    *)
(* every brew is a type 1 coffee of 480.                                   *)
(***************************************************************************)
WorkerNext(p) ==
    /\ OneAtATime(p)
    /\ LoopStep(p) \/ SleepStep(p) \/ BrewStep(p) \/ TempStep(p)
    /\ Drawn(p, {1}, {480}, Groups)

Next ==
    \/ Tick
    \/ SinkFlips
    \/ MainStep
    \/ \E p \in Workers : WorkerNext(p)

Spec == Init /\ [][Next]_vars

\* The scheduler lets every worker run: a sleep ends, a step that can be taken
\* is taken.
SpecFair == Spec /\ \A p \in Workers : WF_vars(WorkerNext(p))

(***************************************************************************)
(* SpecBrew: brews one at a time, on the default document or on a partial  *)
(* one, by the workers of every group and by requests of every kind; the   *)
(* clock stands, the sink stays connected, no send raises.                 *)
(***************************************************************************)
InitBrew == Started({DefaultStatus, PartialStatus})

NextBrew ==
    \E p \in Threads :
       /\ OneAtATime(p)
       /\ LoopStep(p) \/ TempStep(p) \/ RequestStep(p) \/ BrewStep(p) \/ LazyStep(p)
       /\ faults' = 0

SpecBrew == InitBrew /\ [][NextBrew]_vars

(***************************************************************************)
(* SpecStore: two brews at once on the default document, group1's worker   *)
(* and a request for group1 or group2, each a type 1 or a type 3 coffee of *)
(* 480; the clock stands, the sink stays connected, no send raises.        *)
(***************************************************************************)
StoreThreads == {<<"w", 1, "group1">>} \cup Manuals

InitStore == Started({DefaultStatus})

NextStore ==
    \E p \in StoreThreads :
       /\ LoopStep(p) \/ TempStep(p) \/ RequestStep(p) \/ BrewStep(p)
       /\ Drawn(p, {1, 3}, {480}, {"group1", "group2"})
       /\ faults' = 0

SpecStore == InitStore /\ [][NextStore]_vars

(***************************************************************************)
(* SpecLazy: two brews at once, group2's worker and a request for group2   *)
(* or group3, each a type 1 or a type 2 coffee of 480, on the default      *)
(* document or on the partial one, where group2 has no k2 and no           *)
(* totalCoffee and group3 is missing. The clock stands, the sink stays     *)
(* connected, no send raises.                                              *)
(***************************************************************************)
LazyThreads == {<<"w", 1, "group2">>} \cup Manuals

InitLazy == Started({DefaultStatus, PartialStatus})

NextLazy ==
    \E p \in LazyThreads :
       /\ LoopStep(p) \/ TempStep(p) \/ RequestStep(p) \/ BrewStep(p) \/ LazyStep(p)
       /\ Drawn(p, {1, 2}, {480}, {"group2", "group3"})
       /\ faults' = 0

SpecLazy == InitLazy /\ [][NextLazy]_vars

(***************************************************************************)
(* SpecLoop: the loop of group1's worker, brewing type 1 coffees of 480,   *)
(* from 07:00 on, while the clock advances, the sink comes and goes, sends *)
(* may raise and the simulation may be stopped. The scheduler lets the     *)
(* worker run.                                                             *)
(***************************************************************************)
LoopThread == <<"w", 1, "group1">>

InitLoop == Started({DefaultStatus})

LoopNext ==
    /\ LoopStep(LoopThread) \/ DisconnectedSleep(LoopThread) \/ BrewStep(LoopThread)
       \/ TempStep(LoopThread)
    /\ Drawn(LoopThread, {1}, {480}, Groups)

NextLoop == Tick \/ SinkFlips \/ StopSimulation \/ LoopNext

SpecLoop == InitLoop /\ [][NextLoop]_vars /\ WF_vars(LoopNext)

(***************************************************************************)
(* SpecTotals: one brew at a time, by group1's worker or by a request for  *)
(* group1, a type 1 or a type 3 coffee, on a document short of             *)
(* total/totalCoffee, of total/totalVolume or of the totals bucket. The    *)
(* clock stands, the sink stays connected, no send raises.                 *)
(***************************************************************************)
TotalsThreads == {<<"w", 1, "group1">>} \cup Manuals

InitTotals == Started({NoTotalCoffeeStatus, NoTotalVolumeStatus, NoTotalsStatus})

NextTotals ==
    \E p \in TotalsThreads :
       /\ OneAtATime(p)
       /\ LoopStep(p) \/ TempStep(p) \/ RequestStep(p) \/ BrewStep(p)
       /\ Drawn(p, {1, 3}, FlowTotals, {"group1"})
       /\ faults' = 0

SpecTotals == InitTotals /\ [][NextTotals]_vars

(***************************************************************************)
(* SpecSettings: one brew at a time, by group1's worker or by a request    *)
(* for group1, a type 1 coffee of 480, while settings messages of the      *)
(* server change the maintenance settings of the status document.          *)
(***************************************************************************)
SettingsThreads == {<<"w", 1, "group1">>} \cup Manuals

InitSettings == Started({DefaultStatus, PartialStatus})

NextSettings ==
    \/ UpdateMachineStatusSetting
    \/ \E p \in SettingsThreads :
          /\ OneAtATime(p)
          /\ LoopStep(p) \/ TempStep(p) \/ RequestStep(p) \/ BrewStep(p)
          /\ Drawn(p, {1}, {480}, {"group1"})
          /\ faults' = 0

SpecSettings == InitSettings /\ [][NextSettings]_vars

(***************************************************************************)
(* SpecTemp: the brews of group1's worker, type 1 coffees of 480, and the  *)
(* temperature checks that follow them, while the clock advances by five   *)
(* or by twenty minutes and sends may raise.                               *)
(***************************************************************************)
TempThread == <<"w", 1, "group1">>

InitTemp == Started({DefaultStatus})

NextTemp ==
    \/ Tick
    \/ TickLong
    \/ /\ LoopStep(TempThread) \/ TempStep(TempThread) \/ BrewStep(TempThread)
       /\ Drawn(TempThread, {1}, {480}, Groups)

SpecTemp == InitTemp /\ [][NextTemp]_vars

(***************************************************************************)
(* SpecBare: the simulator constructed without a status document, or on    *)
(* the default one, and started; brews one at a time by group1's worker    *)
(* and by requests for group1, coffees of type 1 or 3.                     *)
(***************************************************************************)
BareThreads == {<<"w", 1, "group1">>} \cup Manuals

InitBare == Started({NoStatus, DefaultStatus})

NextBare ==
    \E p \in BareThreads :
       /\ OneAtATime(p)
       /\ LoopStep(p) \/ TempStep(p) \/ RequestStep(p) \/ BrewStep(p)
       /\ Drawn(p, {1, 3}, {480}, {"group1"})
       /\ faults' = 0

SpecBare == InitBare /\ [][NextBare]_vars

(***************************************************************************)
(* SpecFrame: group3's worker and requests for group3 brew at the same     *)
(* time, coffees of type 1 or 2, on the default document or on the partial *)
(* one, which has no group3.                                               *)
(***************************************************************************)
FrameThreads == {<<"w", 1, "group3">>} \cup Manuals

NextFrame ==
    \E p \in FrameThreads :
       /\ LoopStep(p) \/ TempStep(p) \/ RequestStep(p) \/ BrewStep(p) \/ LazyStep(p)
       /\ Drawn(p, {1, 2}, {480}, {"group3"})
       /\ faults' = 0

SpecFrame == InitLazy /\ [][NextFrame]_vars

(***************************************************************************)
(* SpecEvents: what the sink receives from one brew at a time, a type 1    *)
(* coffee of 480 by group1's worker or by a request for group1, while the  *)
(* clock advances, the sink comes and goes and sends may raise.            *)
(***************************************************************************)
EventThreads == {<<"w", 1, "group1">>} \cup Manuals

InitEvents == Started({DefaultStatus})

NextEvents ==
    \/ Tick
    \/ SinkFlips
    \/ \E p \in EventThreads :
          /\ OneAtATime(p)
          /\ \/ LoopStep(p) \/ DisconnectedSleep(p) \/ TempStep(p)
             \/ RequestStep(p) \/ BrewStep(p)
          /\ Drawn(p, {1}, {480}, {"group1"})

SpecEvents == InitEvents /\ [][NextEvents]_vars

(***************************************************************************)
(* SpecView: the status page reads the counters once, before, during or    *)
(* after the brews of group1's worker, each a type 1 coffee of 480 or 305; *)
(* the clock stands, the sink stays connected, no send raises.             *)
(***************************************************************************)
ViewThreads == {<<"w", 1, "group1">>}

InitView == Started({DefaultStatus})

NextView ==
    \/ GetLocalCounters
    \/ \E p \in ViewThreads :
          /\ LoopStep(p) \/ TempStep(p) \/ BrewStep(p)
          /\ Drawn(p, {1}, FlowTotals, Groups)
          /\ faults' = 0

SpecView == InitView /\ [][NextView]_vars

(***************************************************************************)
(* SpecRestart: after a stop and a second start, the two workers of group1 *)
(* side by side, each brewing a type 1 coffee of 480; the clock stands,    *)
(* the sink stays connected, no send raises.                               *)
(***************************************************************************)
RestartThreads == {<<"w", 1, "group1">>, <<"w", 2, "group1">>}

InitRestart == Restarted({DefaultStatus})

NextRestart ==
    \E p \in RestartThreads :
       /\ LoopStep(p) \/ TempStep(p) \/ BrewStep(p)
       /\ Drawn(p, {1}, {480}, Groups)
       /\ faults' = 0

SpecRestart == InitRestart /\ [][NextRestart]_vars

(***************************************************************************)
(* SpecPure: one call of the erogation-time resolver or of the demand      *)
(* model, on the simulator as constructed.                                 *)
(***************************************************************************)
NextPure == ErogCall \/ ErogReturn \/ WaitCall \/ WaitReturn

InitPure == Init /\ connected /\ now = 275

SpecPure == InitPure /\ [][NextPure]_vars

(***************************************************************************)
(* Vocabulary of the properties.                                           *)
(***************************************************************************)
\* Thread p has drawn the data of a brew and its counter update has not
\* returned yet.
Brewing(p) == thr[p].pc \in {"mb_rate", "s_type", "s_erog", "s_flow", "u_guard"} \cup UpdatePcs

\* Every brew that was started has completed.
NoBrewUnderWay == \A p \in Threads : ~Brewing(p)

\* By how much a counter has grown since the document was hydrated.
Increase(path) ==
    ValueOr(path, 0) - (IF path \in DOMAIN hydrated THEN hydrated[path] ELSE 0)

\* The coffee increments of the completed brews, over all groups.
CompletedCoffee ==
    acct.coffee["group1"] + acct.coffee["group2"] + acct.coffee["group3"]

\* residualCoffeeActivation before the first brew: the hydrated value or, the
\* key missing, the value it is created with.
ResidualInitial ==
    IF ResidualPath \in DOMAIN hydrated THEN hydrated[ResidualPath]
    ELSE ResidualCoffeeSetting(settings)

(***************************************************************************)
(* C1-C3: the counters under concurrent brews (SpecStore).                 *)
(***************************************************************************)
\* C1: under any interleaving of a worker's brew and a manual brew, the read
\* and the write of each `value += increment` being separate steps, once every
\* started brew has completed each group's totalCoffee and the totals-level
\* totalCoffee have grown by exactly the sum of the coffee increments of the
\* completed brews: no update is lost.
C1_NoLostUpdate ==
    NoBrewUnderWay =>
        /\ \A g \in Groups : Increase(<<g, "totalCoffee">>) = acct.coffee[g]
        /\ Increase(TotalCoffeePath) = CompletedCoffee

\* C2: in every state a reader of the document can observe, between the steps
\* of a brew included, the totals-level totalCoffee has grown since hydration
\* by the sum of the growths of the three groups' totalCoffee.
C2_TotalsMirrorGroups ==
    Increase(TotalCoffeePath) =
        Increase(<<"group1", "totalCoffee">>) + Increase(<<"group2", "totalCoffee">>)
            + Increase(<<"group3", "totalCoffee">>)

\* C3: after N completed brews, of any types and groups and however they
\* interleave, residualCoffeeActivation is its initial value minus N.
C3_ResidualCountsBrews ==
    (NoBrewUnderWay /\ acct.n > 0) =>
        /\ Has(ResidualPath)
        /\ cnt[ResidualPath] = ResidualInitial - acct.n

(***************************************************************************)
(* C4-C6: one brew at a time, every group, type and request (SpecBrew).    *)
(***************************************************************************)
\* The counter update of p has just returned without an exception, and no
\* other update ran while it did.
UpdateDone(p) == thr[p].pc = "u_ret" /\ thr[p].clean /\ thr[p].alone

\* C4: for every group and every coffee type t in 1..7, one completed brew
\* increases the group's k{t}, the group's totalCoffee and the totals-level
\* totalCoffee all by the same increment, 2 when t is 3 or 4 and 1 otherwise.
C4_SameIncrement ==
    \A p \in Threads :
       UpdateDone(p) =>
          LET increment == IF thr[p].coffee_type \in {3, 4} THEN 2 ELSE 1
          IN /\ Has(KPath(p)) /\ cnt[KPath(p)] - thr[p].snap.k = increment
             /\ Has(TcPath(p)) /\ cnt[TcPath(p)] - thr[p].snap.tc = increment
             /\ Has(TotalCoffeePath)
             /\ cnt[TotalCoffeePath] - thr[p].snap.T = increment

\* A double coffee on group3 has been counted twice in group3's k3.
C4_Witness ==
    \E p \in Threads :
       /\ UpdateDone(p)
       /\ thr[p].group = "group3" /\ thr[p].coffee_type = 3
       /\ cnt[KPath(p)] = thr[p].snap.k + 2

\* C5: a completed brew with flow total f increases the totals-level
\* totalVolume by f/10, that is by f tenths, and after any sequence of
\* completed brews totalVolume has grown by the sum of their f/10.
C5_VolumeByFlow ==
    /\ \A p \in Threads :
          UpdateDone(p) =>
             /\ Has(TotalVolumePath)
             /\ cnt[TotalVolumePath] - thr[p].snap.V = thr[p].flow_total
    /\ NoBrewUnderWay => Increase(TotalVolumePath) = acct.flow

\* Two brews, one of 305 and one of 480, have completed and totalVolume has
\* grown by 78.5.
C5_Witness ==
    /\ NoBrewUnderWay
    /\ acct.n = 2
    /\ acct.flow = 305 + 480
    /\ Increase(TotalVolumePath) = 785

\* A request names a group or a coffee type that does not exist.
InvalidRequest(p) ==
    /\ thr[p].pc # "idle"
    /\ thr[p].group \notin {"group1", "group2", "group3"} \/ thr[p].coffee_type \notin 1..7

\* C6: a manual brew request whose group is not group1, group2 or group3, or
\* whose coffee type is not in 1..7, is answered with an error, and its thread
\* writes nothing to the counters document and sends nothing to the sink: it
\* never gets past the validation.
C6_InvalidRequestRejected ==
    \A p \in Manuals :
       InvalidRequest(p) =>
          /\ thr[p].pc \in {"h_valid", "h_resp"}
          /\ thr[p].pc = "h_resp" => thr[p].result \in {"invalid_type", "invalid_group"}
          /\ thr[p].out = <<>>
          /\ ~thr[p].touched

\* A request for a type 3 coffee on group9 has been answered "invalid group".
C6_Witness ==
    \E p \in Manuals :
       /\ thr[p].pc = "h_resp"
       /\ thr[p].group = "group9" /\ thr[p].coffee_type = 3
       /\ thr[p].result = "invalid_group"
       /\ cnt = hydrated

(***************************************************************************)
(* C7, C8, C10: starting and stopping (Spec, SpecFair).                    *)
(***************************************************************************)
\* C7: start_simulation() called while the simulation is running creates no
\* group worker, emits no flowError and leaves the running flag and the
\* existing workers as they are: the call returns and that is all.
C7_StartIdempotent ==
    [][(main.pc = "st_check" /\ running /\ main' # main) =>
          /\ main' = [main EXCEPT !.pc = "idle"]
          /\ running'
          /\ thr' = thr]_vars

\* The call is made while the three workers of the first start exist and one
\* of them is in its countdown.
C7_Witness ==
    /\ main.pc = "st_check" /\ running
    /\ Len(main.out) = 3
    /\ \A g \in Groups : thr[<<"w", 1, g>>].pc # "none"
    /\ \E g \in Groups : thr[<<"w", 1, g>>].pc = "count"

\* No worker is left: each has returned from its loop or never was.
AllWorkersGone == \A p \in Workers : thr[p].pc \in {"none", "done"}

\* C8: once stop_simulation() has been called and start_simulation() is not
\* called again, every group worker eventually terminates, whatever it was
\* doing; a worker that finds the stop in its countdown returns at that slice
\* without brewing, a worker in the closed-hours sleep goes from the sleep to
\* the head of its loop and returns there; and stop_simulation() is one
\* assignment that waits for no worker.
C8_StopTerminatesWorkers ==
    /\ <>[](~running) => <>[]AllWorkersGone
    /\ [][\A p \in Workers :
            (~running /\ thr'[p] # thr[p]) =>
               /\ thr[p].pc = "count" => (thr'[p].pc = "done" /\ thr'[p].out = thr[p].out)
               /\ thr[p].pc = "closed_sleep" => thr'[p].pc = "top"
               /\ thr[p].pc = "top" => thr'[p].pc = "done"]_vars
    /\ [][(running /\ ~running') => (thr' = thr /\ main' = main)]_vars

\* The simulation is stopped and the three workers have returned, none of
\* them having sent anything.
C8_Witness ==
    /\ ~running
    /\ \A g \in Groups : thr[<<"w", 1, g>>].pc = "done" /\ thr[<<"w", 1, g>>].out = <<>>

\* The call of start_simulation() that started the simulation has sent what
\* it sends.
BaselineSent == main.epoch > 0 /\ main.pc \in {"spawn", "idle"}

\* C10: a call of start_simulation() that starts the simulation and finds the
\* sink connected emits one flowError = false event for each group whose send
\* does not raise, in the order group1, group2, group3 and never two for one
\* group; a call that finds the sink disconnected emits none. Whatever is
\* emitted is emitted before any worker of that start exists.
C10_BaselineBeforeWorkers ==
    /\ main.pc \in {"fe_conn", "fe_send"} =>
          \A g \in Groups : thr[<<"w", main.epoch, g>>].pc = "none"
    /\ \A i \in 1..Len(main.out) :
          /\ main.out[i].path[1] \in Groups
          /\ main.out[i].path[2] = "flowError"
          /\ main.out[i].value = FALSE
          /\ \A j \in 1..Len(main.out) : main.out[j].path = main.out[i].path => j = i
    /\ BaselineSent =>
          Len(main.out) = IF main.current_time = NoValue THEN 0
                          ELSE Len(GroupList) - main.dropped

\* A start has found the sink connected and sent the three events, and the
\* workers it created are in their loops.
C10_Witness ==
    /\ BaselineSent /\ main.pc = "idle"
    /\ [i \in 1..Len(main.out) |-> main.out[i].path[1]] = GroupList
    /\ \A g \in Groups : thr[<<"w", main.epoch, g>>].pc \notin {"none", "done"}

\* C10 as stated: every call that starts the simulation emits exactly one
\* flowError = false event for each of the three groups.
C10_OneBaselinePerGroup ==
    BaselineSent => [i \in 1..Len(main.out) |-> main.out[i].path[1]] = GroupList

(***************************************************************************)
(* C9: the events of one brew (SpecEvents).                                *)
(***************************************************************************)
FastKinds == <<"coffeeType", "erogTime", "flowTotal">>

\* The fast telemetry of the brew p is in, in the order of its emission.
FastEvents(p) ==
    SelectSeq(thr[p].out,
              LAMBDA e : Len(e.path) = 2 /\ e.path[2] \in {"coffeeType", "erogTime", "flowTotal"})

\* C9: within one brew, by a worker or by a request, the fast telemetry is
\* emitted in the order coffeeType, erogTime, flowTotal, the three events
\* carry one timestamp, and the brew changes no counter before flowTotal has
\* been emitted.
C9_FastTelemetryOrder ==
    \A p \in Threads :
       LET fast == FastEvents(p)
       IN /\ Len(fast) <= 3
          /\ \A i \in 1..Len(fast) :
                /\ fast[i].interface = "TelemetryFast01"
                /\ fast[i].path = <<thr[p].group, FastKinds[i]>>
                /\ fast[i].timestamp = fast[1].timestamp
          /\ thr[p].touched => Len(fast) = 3

\* A manual brew has sent its three events and changed a counter, the clock
\* having advanced since the brew took its timestamp.
C9_Witness ==
    \E p \in Manuals :
       /\ Len(FastEvents(p)) = 3
       /\ thr[p].touched
       /\ FastEvents(p)[3].timestamp < now

(***************************************************************************)
(* C11: the snapshot of the status page (SpecView).                        *)
(***************************************************************************)
\* C11: the value get_local_counters() returned is a copy: what its holder
\* reads in it stays what the counters were when it was returned, whatever
\* the brews do afterwards.
C11_SnapshotIsCopy == view.ref = "counters" => SnapshotValue = view.seen

(***************************************************************************)
(* C12: a manual brew against the brewing branch of a worker (SpecBrew).   *)
(***************************************************************************)
\* C12: a manual brew that succeeds has taken the sink and the counters
\* through the sequence of a worker's brew: its emissions begin with
\* coffeeType, erogTime, flowTotal, it has emitted nothing a worker's brew
\* does not emit, and the temperature check of its group has been made, which
\* leaves the time of the group's last temperature update set.
C12_ManualAsWorker ==
    \A p \in Manuals :
       (thr[p].pc = "h_resp" /\ thr[p].result = "success") =>
          /\ Len(thr[p].out) >= 3
          /\ [i \in 1..3 |-> thr[p].out[i].path] =
                [i \in 1..3 |-> <<thr[p].group, FastKinds[i]>>]
          /\ \A i \in 1..Len(thr[p].out) :
                thr[p].out[i].path # <<thr[p].group, "flowRate">>
          /\ last_temp_update[thr[p].group] # NoValue

(***************************************************************************)
(* C13: counter events against counter changes (SpecEvents).               *)
(***************************************************************************)
\* The counters a brew of p changes, each with its value when the update began
\* and the path of its event.
BrewCounters(p) ==
    {<<KPath(p), thr[p].snap.k, KPath(p)>>,
     <<TcPath(p), thr[p].snap.tc, TcPath(p)>>,
     <<TotalCoffeePath, thr[p].snap.T, TotalCoffeePath>>,
     <<TotalVolumePath, thr[p].snap.V, TotalVolumePath>>,
     <<ResidualPath, thr[p].snap.R, <<"residualCoffeeActivation">>>>}

\* The events of p's brew on the counters interface that carry the path.
CounterEvents(p, path) ==
    {i \in 1..Len(thr[p].out) :
        thr[p].out[i].interface = "Counters02" /\ thr[p].out[i].path = path}

\* C13: when the counter update of a brew returns, whether it succeeded or
\* failed, every counter it changed has exactly one event in the sink and
\* every counter it left alone has none; and a brew whose three fast-telemetry
\* events were emitted has changed its five counters.
C13_EventsMatchChanges ==
    \A p \in Threads :
       (thr[p].pc = "u_ret" /\ thr[p].alone) =>
          \A c \in BrewCounters(p) :
             /\ Cardinality(CounterEvents(p, c[3])) =
                   IF ValueOr(c[1], c[2]) # c[2] THEN 1 ELSE 0
             /\ Len(FastEvents(p)) = 3 => ValueOr(c[1], c[2]) # c[2]

(***************************************************************************)
(* C14: the temperature events of a group (SpecRestart).                   *)
(***************************************************************************)
\* The timestamps of the currentTemp events thread p has sent for group g in
\* its present brew.
TempStamps(p, g) ==
    {thr[p].out[i].timestamp : i \in
        {j \in 1..Len(thr[p].out) : thr[p].out[j].path = <<g, "currentTemp">>}}

\* C14: two currentTemp events of one group, whichever threads sent them, are
\* never less than 600 seconds apart by their timestamps.
C14_TempEventsApart ==
    \A g \in Groups : \A p, q \in Threads :
       p # q => \A a \in TempStamps(p, g), b \in TempStamps(q, g) :
                  (a - b) * TickSeconds >= 600 \/ (b - a) * TickSeconds >= 600

(***************************************************************************)
(* C15: the demand model (SpecPure).                                       *)
(***************************************************************************)
\* C15: for every open hour 7..22 the demand model returns an integer wait in
\* the interval of the hour's band: [140,260] for 7-9, [240,480] for 10-11,
\* [160,280] for 12-13, [540,900] for 14-17, [1980,3180] for 18-22.
C15_WaitInBand ==
    (calc.fn = "wait_time" /\ calc.done /\ calc.current_hour \in OpenHour..(CloseHour - 1)) =>
        /\ calc.current_hour \in 7..9 => calc.result \in 140..260
        /\ calc.current_hour \in 10..11 => calc.result \in 240..480
        /\ calc.current_hour \in 12..13 => calc.result \in 160..280
        /\ calc.current_hour \in 14..17 => calc.result \in 540..900
        /\ calc.current_hour \in 18..22 => calc.result \in 1980..3180

\* The demand model has returned the shortest wait of the 10 o'clock band.
C15_Witness ==
    calc.fn = "wait_time" /\ calc.done /\ calc.current_hour = 10 /\ calc.result = 240

(***************************************************************************)
(* C16: the hour the demand model is invoked with (Spec).                  *)
(***************************************************************************)
\* The step in which worker p calls _get_realistic_wait_time(current_hour):
\* current_hour is the hour of the clock read in the same iteration, and the
\* countdown of the wait returned begins.
InvokesDemandModel(p) == thr[p].pc = "clock" /\ thr'[p].pc = "count"

\* C16: a group worker never invokes the demand model with a closed hour: the
\* hour argument of every invocation is in 7..22.
C16_OpenHourOnly ==
    [][\A p \in Workers : InvokesDemandModel(p) => Hour(now) \in 7..22]_vars

\* A worker counts down a wait the demand model returned for 22 o'clock.
C16_Witness ==
    \E p \in Workers : thr[p].pc = "count" /\ thr[p].slices = MaxSlices /\ Hour(now) = 22

(***************************************************************************)
(* C17: the erogation time around the target time of a recipe (SpecPure).  *)
(***************************************************************************)
\* The resolver has returned for a coffee type 1..4 whose recipe it found.
ResolvedFromRecipe ==
    /\ calc.fn = "erog_time" /\ calc.done
    /\ calc.coffee_type \in 1..4
    /\ calc.doc.depth = Len(Lookups)

\* The interval around the target time, its variation the exact product cut
\* to an integer.
AroundTarget(target_time, percent) ==
    LET v == (target_time * percent) \div 100
        low == IF target_time - v > 50 THEN target_time - v ELSE 50
    IN low..(target_time + v)

C18_DefaultOnFailure ==
    (calc.fn = "erog_time" /\ calc.done) =>
        /\ ~calc.result.raised
        /\ (calc.coffee_type \in 5..7 \/ calc.doc.depth < Len(Lookups)) =>
              calc.result.value \in 150..350

\* The resolver has returned 350 for a coffee type 1..4 whose group has no
\* targetTime table.
C18_Witness ==
    /\ calc.fn = "erog_time" /\ calc.done
    /\ calc.coffee_type = 2 /\ Lookups[calc.doc.depth + 1] = "targetTime"
    /\ calc.result = [raised |-> FALSE, value |-> 350]

(***************************************************************************)
(* C19: the direction in which the counters move (SpecStore).              *)
(***************************************************************************)
\* The brew tallies: every counter of a group, and the two totals.
Tallies == {path \in DOMAIN cnt : path # ResidualPath}

\* C19: from one state to the next no brew tally decreases and
\* residualCoffeeActivation does not increase, concurrent worker and manual
\* brews included.
C19_Monotone ==
    [][/\ \A path \in Tallies : path \in DOMAIN cnt' /\ cnt'[path] >= cnt[path]
       /\ (Has(ResidualPath) /\ ResidualPath \in DOMAIN cnt') =>
             cnt'[ResidualPath] <= cnt[ResidualPath]]_vars

(***************************************************************************)
(* C20: lazy creation of a group's counters (SpecLazy).                    *)
(***************************************************************************)
\* C20: a group's coffee-type counter and its totalCoffee are created, with
\* the value 0, only on first reference: a counter that exists is not created
\* again and not set back to 0, also when a worker and a manual brew on the
\* same group both find it absent.
C20_CreatedOnce ==
    [][\A path \in DOMAIN cnt :
          path[1] \in Groups =>
             /\ path \in DOMAIN cnt'
             /\ cnt[path] > 0 => cnt'[path] > 0]_vars

(***************************************************************************)
(* C21: the clock read after the countdown (Spec).                         *)
(***************************************************************************)
\* C21 as stated: no brew of a worker starts while the shop is closed; the
\* time a brew takes for its events is in an open hour.
C21_NoBrewWhileClosed ==
    \A p \in Workers :
        thr[p].pc \in {"s_type", "s_erog", "s_flow"} => ~ShopClosed(Hour(thr[p].current_time))

\* C21: a worker calls _brew_coffee only after a clock read, made after its
\* countdown, that found the shop open; when that read finds the shop closed
\* the worker goes back to the top of its loop, having sent nothing and
\* changed no counter.
C21_RecheckBeforeBrew ==
    [][\A p \in Workers :
          /\ (thr[p].pc # "b_begin" /\ thr'[p].pc = "b_begin") =>
                thr[p].pc = "recheck" /\ ~ShopClosed(Hour(now))
          /\ (thr[p].pc = "recheck" /\ thr'[p].pc # "recheck" /\ ShopClosed(Hour(now))) =>
                /\ thr'[p].pc = "top"
                /\ thr'[p].out = thr[p].out
                /\ cnt' = cnt /\ total_litres_tens_ml' = total_litres_tens_ml]_vars

\* A worker has counted down across the closing hour and is about to read
\* the clock again.
C21_Witness ==
    \E p \in Workers : thr[p].pc = "recheck" /\ ShopClosed(Hour(now)) /\ ticks > 0

(***************************************************************************)
(* C22: the workers of a group after a stop and a start (SpecRestart).     *)
(***************************************************************************)
\* The workers of group g that have been created and have not returned.
LiveWorkers(g) == {p \in Workers : p[3] = g /\ thr[p].pc \notin {"none", "done"}}

\* C22: at every moment, across any sequence of start_simulation() and
\* stop_simulation() calls, at most one live worker exists for each group; a
\* stop followed by a start before the old workers have observed the stop
\* does not leave two workers on one group.
C22_OneWorkerPerGroup ==
    \A g \in Groups : Cardinality(LiveWorkers(g)) <= 1

(***************************************************************************)
(* C23: the counter update after a send that raises (SpecEvents).          *)
(***************************************************************************)
\* C23: an error in one sub-step of the counter update, such as a send that
\* raises, does not abort the sub-steps after it: when the update of a brew
\* returns, residualCoffeeActivation has been decremented and the volume of
\* the brew has been added to the litres dispensed.
C23_LaterStepsRun ==
    \A p \in Threads :
        (thr[p].pc = "u_ret" /\ thr[p].alone) =>
            /\ ValueOr(ResidualPath, thr[p].snap.R) = thr[p].snap.R - 1
            /\ total_litres_tens_ml = thr[p].snap.L + thr[p].flow_total

(***************************************************************************)
(* C24: a worker that finds the sink disconnected (Spec).                  *)
(***************************************************************************)
\* Worker p takes a step.
Steps(p) == thr'[p] # thr[p]

\* Nothing is sent by p and nothing is counted in this step.
NothingDone(p) ==
    /\ thr'[p].out = thr[p].out
    /\ cnt' = cnt
    /\ total_litres_tens_ml' = total_litres_tens_ml
    /\ last_temp_update' = last_temp_update

\* C24: a worker that finds the sink disconnected at the top of an iteration
\* or at the start of a brew sends nothing and changes no counter in that
\* iteration: it sleeps, or returns from the brew, and is back at the top of
\* its loop; the brew it skipped is not sent later, every send of a worker
\* belonging to a brew that found the sink connected when it began.
C24_DisconnectedSkips ==
    [][\A p \in Workers :
          /\ (Steps(p) /\ thr[p].pc = "conn" /\ ~connected) =>
                thr'[p].pc = "conn_sleep" /\ NothingDone(p)
          /\ (Steps(p) /\ thr[p].pc = "conn_sleep") =>
                thr'[p].pc = "top" /\ NothingDone(p)
          /\ (Steps(p) /\ thr[p].pc = "b_begin" /\ ~connected) =>
                thr'[p].pc = "top" /\ NothingDone(p)
          /\ (Steps(p) /\ thr'[p].pc = "s_type") =>
                thr[p].pc = "b_begin" /\ connected
          /\ (Steps(p) /\ (Len(thr'[p].out) > Len(thr[p].out) \/ cnt' # cnt)) =>
                Brewing(p) \/ thr[p].pc = "t_send"]_vars

\* A worker has found the sink disconnected at the top of an iteration and
\* sleeps, having sent nothing.
C24_Witness ==
    \E p \in Workers : thr[p].pc = "conn_sleep" /\ ~connected /\ thr[p].out = <<>>

(***************************************************************************)
(* C25: the worker's loop after a brew that raised (SpecLoop).             *)
(***************************************************************************)
\* A send of the worker's brew has raised, and the model has an iteration left.
BrewRaised(p) == faults > 0 /\ ~thr[p].clean /\ ops < MaxOps

\* The worker starts a brew, or the simulation is stopped, the sink
\* disconnected or the shop closed.
BrewsOrReleased ==
    \/ thr[LoopThread].pc = "s_type"
    \/ ~running \/ ~connected \/ ShopClosed(Hour(now))

\* C25: an exception raised during a brew of a worker does not end the
\* worker: as long as the simulation keeps running, the shop is open and the
\* sink is connected, the worker eventually starts another brew.
C25_BrewsAgain == BrewRaised(LoopThread) ~> BrewsOrReleased

\* The worker has started its second brew after a send of its first raised.
C25_Witness ==
    /\ thr[LoopThread].pc = "s_type" /\ faults > 0 /\ ops = MaxOps
    /\ running /\ connected

(***************************************************************************)
(* C26: a totals key the document lacks (SpecTotals).                      *)
(***************************************************************************)
\* The update of p's brew has counted in `path`, which held `before`, and has
\* sent one event for it on `on`.
Counted(p, path, before, increment, on) ==
    /\ Has(path) /\ cnt[path] = before + increment
    /\ Cardinality(CounterEvents(p, on)) = 1

\* The update of p's brew has left `path` missing and sent nothing for it.
Skipped(p, path) == ~Has(path) /\ CounterEvents(p, path) = {}

\* The events of p's brew on the maintenance path `name`.
MaintenanceEvents(p, name) ==
    {i \in 1..Len(thr[p].out) : thr[p].out[i].path = <<"manteinance", name>>}

\* C26: when the totals bucket lacks totalCoffee or totalVolume, the counter
\* update skips that step only: the key is not created and nothing is sent
\* for it, while the group's counters, the other totals step,
\* residualCoffeeActivation and the maintenance derivatives are updated and
\* sent as usual.
C26_SkipsOnlyMissing ==
    \A p \in Threads :
        (/\ thr[p].pc = "u_ret" /\ thr[p].alone
         /\ "total" \in BucketsOf(hydrated)
         /\ thr[p].snap.T = NoValue \/ thr[p].snap.V = NoValue) =>
            /\ IF thr[p].snap.T = NoValue THEN Skipped(p, TotalCoffeePath)
               ELSE Counted(p, TotalCoffeePath, thr[p].snap.T,
                            CoffeeIncrement(thr[p].coffee_type), TotalCoffeePath)
            /\ IF thr[p].snap.V = NoValue THEN Skipped(p, TotalVolumePath)
               ELSE Counted(p, TotalVolumePath, thr[p].snap.V,
                            VolumeIncrementTenths(thr[p].flow_total), TotalVolumePath)
            /\ Counted(p, KPath(p), thr[p].snap.k, CoffeeIncrement(thr[p].coffee_type), KPath(p))
            /\ Counted(p, TcPath(p), thr[p].snap.tc, CoffeeIncrement(thr[p].coffee_type), TcPath(p))
            /\ Counted(p, ResidualPath, thr[p].snap.R, -1, <<"residualCoffeeActivation">>)
            /\ total_litres_tens_ml = thr[p].snap.L + thr[p].flow_total
            /\ Cardinality(MaintenanceEvents(p, "residualPumpActivation")) = 1
            /\ Cardinality(MaintenanceEvents(p, "residualFilterLiters")) = 1

\* The update of a brew has returned on a document whose totals bucket has
\* no totalCoffee, the volume counted.
C26_Witness ==
    \E p \in Threads :
        /\ thr[p].pc = "u_ret" /\ thr[p].alone
        /\ thr[p].snap.T = NoValue /\ thr[p].snap.V # NoValue
        /\ ~Has(TotalCoffeePath)
        /\ cnt[TotalVolumePath] = thr[p].snap.V + thr[p].flow_total

(***************************************************************************)
(* C27: the first brew on a document without residualCoffeeActivation      *)
(* (SpecTotals).                                                           *)
(***************************************************************************)
\* C27: on the first brew against a document that has no
\* residualCoffeeActivation, a document without a totals bucket included,
\* the counter is created from the setting residualCoffeeForManteinance, or
\* from 10000 when the setting is absent, and decremented: after the brew it
\* holds the initial value less 1.
C27_ResidualCreated ==
    \A p \in Threads :
        (/\ thr[p].pc = "u_ret" /\ thr[p].alone
         /\ ops = 1
         /\ ResidualPath \notin DOMAIN hydrated) =>
            /\ Has(ResidualPath)
            /\ cnt[ResidualPath] = ResidualCoffeeSetting(settings) - 1

(***************************************************************************)
(* C28: the residualFilterLiters a brew sends (SpecBrew).                  *)
(***************************************************************************)
\* The update of p's brew has returned, its last event residualFilterLiters.
FilterSent(p) ==
    /\ thr[p].pc = "u_ret" /\ thr[p].alone
    /\ thr[p].sent.path = <<"manteinance", "residualFilterLiters">>

\* C28: after every brew the residualFilterLiters sent is
\* floor(initial_filter_duration - L), L the volume dispensed since startup
\* in litres: the sum of the flow totals, which are tenths of a millilitre,
\* so 10000 to the litre; also when L is above initial_filter_duration.
C28_FilterLitersFloor ==
    \A p \in Threads :
        FilterSent(p) =>
            thr[p].sent.value =
                (initial_filter_duration * 10000 - total_litres_tens_ml) \div 10000

(***************************************************************************)
(* C29: the filter duration after a change of its setting (SpecSettings).  *)
(***************************************************************************)
\* The filter duration as __init__ read it from the document the run began
\* with: the setting of that document, or the default.
ConstructedFilterDuration ==
    IF hydrated = PartialCounters THEN WaterFilterDurationSetting(PartialStatus.settings)
    ELSE WaterFilterDurationSetting(DefaultStatus.settings)

\* C29: initial_filter_duration is read once, at construction, from the
\* setting waterFilterDuration or defaulted: a later change of the setting in
\* the status document changes neither initial_filter_duration nor the
\* residualFilterLiters the brews after it send.
C29_FilterDurationFixed ==
    /\ initial_filter_duration = ConstructedFilterDuration
    /\ \A p \in Threads :
          FilterSent(p) =>
             thr[p].sent.value =
                 ResidualFilterLiters(ConstructedFilterDuration, total_litres_tens_ml)

\* A brew has sent its residualFilterLiters after the setting has changed.
C29_Witness ==
    \E p \in Threads :
        /\ FilterSent(p)
        /\ settings.waterFilterDuration \notin {NoValue, ConstructedFilterDuration}

(***************************************************************************)
(* C30: the temperature check after a worker's brew (SpecTemp).            *)
(***************************************************************************)
\* The seconds between the group's last temperature update and p's brew.
SinceLastUpdate(p) == (thr[p].current_time - last_temp_update[thr[p].group]) * TickSeconds

\* The check of p's brew finds no prior update, or one 1200 seconds old.
UpdateDue(p) ==
    /\ thr[p].pc = "t_chk"
    /\ last_temp_update[thr[p].group] = NoValue \/ SinceLastUpdate(p) >= 1200

\* The step of p sends a currentTemp event with the timestamp of its brew.
EmitsCurrentTemp(p) ==
    /\ Len(thr'[p].out) = Len(thr[p].out) + 1
    /\ thr'[p].sent.path = <<thr[p].group, "currentTemp">>
    /\ thr'[p].sent.timestamp = thr[p].current_time

\* C30 as stated: a check that finds no prior update, or one at least 1200
\* seconds old, always emits a currentTemp event.
C30_DueAlwaysEmits ==
    [][\A p \in Workers :
          /\ (Steps(p) /\ UpdateDue(p)) => thr'[p].pc = "t_set"
          /\ (Steps(p) /\ thr[p].pc = "t_send") => EmitsCurrentTemp(p)]_vars

\* C30: the temperature check after a worker's brew fires the update when
\* the group has no prior update and when at least 1200 seconds have passed
\* since the last one; an update that fires sets the group's last-update
\* time to the timestamp of the brew and then sends one currentTemp event,
\* which reaches the sink unless the send raises; the time stays set when
\* the send raises.
C30_DueFiresUpdate ==
    [][\A p \in Workers :
          /\ (Steps(p) /\ UpdateDue(p)) => thr'[p].pc = "t_set"
          /\ (Steps(p) /\ thr[p].pc = "t_set") =>
                /\ thr'[p].pc = "t_send"
                /\ last_temp_update'[thr[p].group] = thr[p].current_time
          /\ (Steps(p) /\ thr[p].pc = "t_send") =>
                /\ thr'[p].pc = "b_end"
                /\ last_temp_update'[thr[p].group] = thr[p].current_time
                /\ \/ EmitsCurrentTemp(p)
                   \/ faults' = faults + 1 /\ thr'[p].out = thr[p].out]_vars

\* The check of a brew has fired on a prior update twenty minutes old.
C30_Witness ==
    /\ thr[TempThread].pc = "t_set"
    /\ last_temp_update["group1"] # NoValue
    /\ SinceLastUpdate(TempThread) >= 1200

(***************************************************************************)
(* C31: the temperature emitted and the group's setpoint (SpecSettings).   *)
(***************************************************************************)
\* The setpoint of a group, in tenths of a degree: the one the configuration
\* gives, or else the default of the group.
ConfiguredSetpointTenths(group) ==
    IF group = "group1" /\ settings.tempSetpointGr1 # NoValue
    THEN settings.tempSetpointGr1 * 10
    ELSE SetpointTenths(group)

\* C31: every currentTemp value emitted for a group lies within 5 degrees
\* (50 tenths) of the group's setpoint, the configured one when the
\* configuration gives one and the default of the group otherwise.
C31_TempAroundSetpoint ==
    [][\A p \in Workers :
          (Steps(p) /\ EmitsCurrentTemp(p)) =>
              LET s == ConfiguredSetpointTenths(thr[p].group)
              IN thr'[p].sent.value \in (s - 50)..(s + 50)]_vars

(***************************************************************************)
(* C32: a manual brew requested while the sink is disconnected (Spec).     *)
(***************************************************************************)
\* The request thread p is at one of its two connection tests, the one of
\* brew_coffee or the one of manual_brew_coffee, and the sink is disconnected.
FindsDisconnected(p) ==
    /\ thr[p].pc \in {"h_valid", "mb_begin"}
    /\ ~connected

\* C32: a manual brew whose connection test finds the sink disconnected, or
\* no device registered, answers an error to its caller; it has sent nothing,
\* sends nothing, and leaves the counters document as it was.
C32_DisconnectedManualBrew ==
    [][\A p \in Manuals :
          /\ (Steps(p) /\ FindsDisconnected(p)) =>
                /\ thr[p].out = <<>>
                /\ NothingDone(p)
                /\ thr'[p].pc = "h_resp"
                /\ thr'[p].result \in {"invalid_type", "invalid_group",
                                       "not_connected", "failed"}
          /\ (Steps(p) /\ thr[p].pc = "h_resp") =>
                /\ Len(thr'[p].out) <= Len(thr[p].out)
                /\ cnt' = cnt /\ total_litres_tens_ml' = total_litres_tens_ml
                /\ thr'[p].pc = "idle"]_vars

\* A request has been refused because the sink is disconnected.
C32_Witness ==
    \E p \in Manuals :
       /\ thr[p].pc = "h_resp"
       /\ thr[p].result = "not_connected"
       /\ thr[p].out = <<>>
       /\ ~connected

(***************************************************************************)
(* C33: residualPumpActivation and residualCoffeeActivation (SpecStore).   *)
(***************************************************************************)
PumpPath == <<"manteinance", "residualPumpActivation">>

\* The step of p emits residualPumpActivation.
EmitsPump(p) ==
    /\ thr[p].pc = "m_pump"
    /\ Len(thr'[p].out) = Len(thr[p].out) + 1

C34_DefaultStoreCounts ==
    \A p \in Threads :
        (/\ thr[p].pc = "u_ret"
         /\ ops = 1
         /\ hydrated = NoStatus.counters) =>
            /\ Has(KPath(p)) /\ cnt[KPath(p)] = CoffeeIncrement(thr[p].coffee_type)
            /\ Has(TcPath(p)) /\ cnt[TcPath(p)] = CoffeeIncrement(thr[p].coffee_type)
            /\ Has(ResidualPath) /\ cnt[ResidualPath] = DefaultResidualCoffee - 1

(***************************************************************************)
(* C35: the counters a brew leaves alone (SpecFrame).                      *)
(***************************************************************************)
\* The entries a brew of p's coffee type on p's group may change.
OwnPaths(p) == {KPath(p), TcPath(p), TotalCoffeePath, TotalVolumePath, ResidualPath}

\* The entry at path is the same before and after the step, or absent both.
SameEntry(path) ==
    /\ path \in DOMAIN cnt <=> path \in DOMAIN cnt'
    /\ path \in DOMAIN cnt => cnt'[path] = cnt[path]

\* C35: a brew of type t on group g leaves every counter of the other groups
\* and every k{u} of g, u other than t, as it was; it changes nothing but
\* g's k{t}, g's totalCoffee, and the totals' totalCoffee, totalVolume and
\* residualCoffeeActivation.
C35_OthersUnchanged ==
    [][\A p \in Threads :
          (Steps(p) /\ Brewing(p)) =>
              \A path \in (DOMAIN cnt \cup DOMAIN cnt') \ OwnPaths(p) : SameEntry(path)]_vars

(***************************************************************************)
(* C36: a group's totalCoffee and its coffee-type counters (SpecEvents).   *)
(***************************************************************************)
\* The sum of the increases of k1..k(n) of group g since hydration.
RECURSIVE KIncrease(_, _)
KIncrease(g, n) ==
    IF n = 0 THEN 0 ELSE Increase(<<g, CoffeeKey(n)>>) + KIncrease(g, n - 1)

\* C36: whenever no brew is in progress, the increase of every group's
\* totalCoffee since hydration is the sum of the increases of its k1..k7
\* since hydration, after any sequence of worker and manual brews.
C36_TotalIsSumOfTypes ==
    NoBrewUnderWay =>
        \A g \in Groups : Increase(<<g, "totalCoffee">>) = KIncrease(g, 7)

(***************************************************************************)
(* C37: the answer of a manual brew and its counter update (SpecEvents).   *)
(***************************************************************************)
\* C37: a manual brew answers success only if its counter update was
\* applied: when success is returned, the group's counter of the coffee type
\* and the group's totalCoffee have grown by the coffee increment of the brew.
C37_SuccessMeansCounted ==
    \A p \in Manuals :
        (/\ thr[p].pc = "h_resp"
         /\ thr[p].result = "success"
         /\ thr[p].alone) =>
            /\ Has(KPath(p))
            /\ cnt[KPath(p)] = thr[p].snap.k + CoffeeIncrement(thr[p].coffee_type)
            /\ Has(TcPath(p))
            /\ cnt[TcPath(p)] = thr[p].snap.tc + CoffeeIncrement(thr[p].coffee_type)

(***************************************************************************)
(* C38: the sign of residualCoffeeActivation (SpecSettings).               *)
(***************************************************************************)
\* C38: residualCoffeeActivation is never negative, whatever value within
\* 0..10000 the setting gave it at its creation and however many brews
\* have followed.
C38_ResidualNotNegative == Has(ResidualPath) => cnt[ResidualPath] >= 0

====
